---- MODULE Spec2Model ----
(***************************************************************************)
(* AssetBridge backend: authentication and user-lifecycle subsystem.       *)
(*                                                                         *)
(* The model follows the Express handlers of authController.ts and         *)
(* userController.ts, the authenticate middleware, the JWT and password    *)
(* utilities, the User schema and the error handler.  A request is served  *)
(* in steps: one step per access to the user collection, so that the       *)
(* requests of several clients interleave at the awaits of the handlers.   *)
(* Passwords and emails are sequences of one-character strings.  The       *)
(* Users page of the frontend (pages/Users.tsx) is a client of its own     *)
(* specification, SpecPage.                                                *)
(***************************************************************************)
EXTENDS Integers, Sequences, FiniteSets, TLC

VARIABLES users, nextId, now, issued, reqs, served, changes, loggedOut,
          page, app

vars == <<users, nextId, now, issued, reqs, served, changes, loggedOut,
          page, app>>

(***************************************************************************)
(* Bounds of the model.                                                    *)
(***************************************************************************)
\* largest _id the store assigns (two seeded accounts, the rest created)
MaxId == 3
\* number of requests the clients send in one behaviour
MaxRequests == 2
\* last instant of the clock, in units of the token lifetime
MaxTime == 1

\* the requests in flight at the same time
Slots == {"r1", "r2"}

(***************************************************************************)
(* Characters and strings.                                                 *)
(***************************************************************************)
UpperSeq == <<"A","B","C","D","E","F","G","H","I","J","K","L","M",
              "N","O","P","Q","R","S","T","U","V","W","X","Y","Z">>
LowerSeq == <<"a","b","c","d","e","f","g","h","i","j","k","l","m",
              "n","o","p","q","r","s","t","u","v","w","x","y","z">>
DigitSeq == <<"0","1","2","3","4","5","6","7","8","9">>
\* the alphabet of generatePassword's symbols
SpecialSeq == <<"!","@","#","$","%","^","&","*">>

Range(s) == {s[i] : i \in 1..Len(s)}

\* the character class of validatePassword's last regular expression
SpecialClass ==
    {"!","@","#","$","%","^","&","*","(",")","_","+","-","=","[","]",
     "{","}",";","'",":","\"","\\","|",",",".","<",">","/","?"}

\* the lower-case letter of each upper-case letter, and the converse
LowerOf ==
    [c \in Range(UpperSeq) |->
        LowerSeq[CHOOSE k \in 1..Len(UpperSeq) : UpperSeq[k] = c]]
UpperOf ==
    [c \in Range(LowerSeq) |->
        UpperSeq[CHOOSE k \in 1..Len(LowerSeq) : LowerSeq[k] = c]]

\* String.prototype.toLowerCase on a sequence of characters
toLowerCase(s) ==
    [i \in 1..Len(s) |->
        IF s[i] \in DOMAIN LowerOf THEN LowerOf[s[i]] ELSE s[i]]

\* String.prototype.toUpperCase on a sequence of characters
toUpperCase(s) ==
    [i \in 1..Len(s) |->
        IF s[i] \in DOMAIN UpperOf THEN UpperOf[s[i]] ELSE s[i]]

(***************************************************************************)
(* Password utilities (utils/password.ts).                                 *)
(***************************************************************************)
SALT_ROUNDS == 12

\* the salts bcrypt may draw for one hash
Salts == {1, 2}

\* bcrypt.hash: a salted one-way image of the plain text
hashPassword(password, salt) ==
    [plain |-> password, salt |-> salt, rounds |-> SALT_ROUNDS]

\* bcrypt.compare: does the hash stem from this plain text
comparePassword(password, hashedPassword) ==
    hashedPassword.plain = password

MsgLength == "Password must be at least 8 characters long"
MsgUpper == "Password must contain at least one uppercase letter"
MsgLower == "Password must contain at least one lowercase letter"
MsgDigit == "Password must contain at least one number"
MsgSpecial == "Password must contain at least one special character"

MinPasswordLength == 8

\* a validation that stops at the first unmet rule
validatePassword_FirstOnly(password) ==
    IF Len(password) < MinPasswordLength THEN <<MsgLength>>
    ELSE IF Range(password) \cap Range(UpperSeq) = {} THEN <<MsgUpper>>
    ELSE IF Range(password) \cap Range(LowerSeq) = {} THEN <<MsgLower>>
    ELSE IF Range(password) \cap Range(DigitSeq) = {} THEN <<MsgDigit>>
    ELSE IF Range(password) \cap SpecialClass = {} THEN <<MsgSpecial>>
    ELSE <<>>

\* validatePassword: the list of the unmet rules, in the order of the checks
validatePassword(password) ==
    (IF Len(password) < MinPasswordLength THEN <<MsgLength>> ELSE <<>>)
    \o (IF Range(password) \cap Range(UpperSeq) = {} THEN <<MsgUpper>> ELSE <<>>)
    \o (IF Range(password) \cap Range(LowerSeq) = {} THEN <<MsgLower>> ELSE <<>>)
    \o (IF Range(password) \cap Range(DigitSeq) = {} THEN <<MsgDigit>> ELSE <<>>)
    \o (IF Range(password) \cap SpecialClass = {} THEN <<MsgSpecial>> ELSE <<>>)

\* the number of characters generatePassword adds after the four guaranteed
RemainingLength == 12

\* a generator without the four guaranteed characters
generatePassword_AnyChars(u, l, n, s, rest, perm) ==
    [i \in 1..Len(rest) |-> rest[1 + (perm[i] % Len(rest))]]

\* generatePassword: one character of each class, RemainingLength characters
\* of any class, then a shuffle (perm is the permutation the sort produces)
generatePassword(u, l, n, s, rest, perm) ==
    LET password == <<u, l, n, s>> \o rest
    IN  [i \in 1..Len(password) |-> password[perm[i]]]

\* the outcomes of the random source that the model explores
GenRest == <<"x","Y","9","@","m","K","2","#","p","L","5","$">>
GenPerms ==
    { [i \in 1..(4 + RemainingLength) |-> (4 + RemainingLength + 1) - i] }
GeneratedPasswords ==
    { generatePassword("A", "b", "3", "!", GenRest, perm) : perm \in GenPerms }

(***************************************************************************)
(* JWT utilities (utils/jwt.ts) and the jsonwebtoken library.              *)
(***************************************************************************)
\* JWT_EXPIRATION, '24h': the unit of the clock is 24 hours
JWT_EXPIRATION == 1

JWT_SECRET == "your-secret-key-change-in-production"

NoClaims == [userId |-> 0, email |-> <<>>, iat |-> 0, exp |-> 0]
NoToken == [payload |-> NoClaims, sig |-> "none"]
\* 'invalid-token': a string that is no JWT
MalformedToken == [payload |-> NoClaims, sig |-> "malformed"]

\* a token that never expires within the instants of the model
generateToken_NoExpiry(userId, email, t) ==
    [payload |-> [userId |-> userId, email |-> email,
                  iat |-> t, exp |-> t + JWT_EXPIRATION + MaxTime + 1],
     sig |-> JWT_SECRET]

\* generateToken at instant t: jwt.sign adds iat and exp = iat + expiresIn
generateToken(userId, email, t) ==
    [payload |-> [userId |-> userId, email |-> email,
                  iat |-> t, exp |-> t + JWT_EXPIRATION],
     sig |-> JWT_SECRET]

\* a token some other party signed with a secret of its own
ForgedToken(userId, email, t) ==
    [generateToken(userId, email, t) EXCEPT !.sig = "some-other-secret"]

\* jwt.verify at instant t: the class of the error it throws, "none" if it
\* returns the payload.  The signature is checked before the expiry.
jwtVerifyError(token, t) ==
    IF token.sig # JWT_SECRET THEN "JsonWebTokenError"
    ELSE IF t >= token.payload.exp THEN "TokenExpiredError"
    ELSE "none"

\* an instanceof for classes none of which derives from another
InstanceOf_Exact(err, class) == err = class

\* instanceof: jsonwebtoken derives TokenExpiredError from JsonWebTokenError
InstanceOf(err, class) ==
    \/ err = class
    \/ err = "TokenExpiredError" /\ class = "JsonWebTokenError"

\* verifyToken: the decoded payload, or the message of the Error it throws
verifyToken(token, t) ==
    LET err == jwtVerifyError(token, t)
    IN  IF err = "none"
        THEN [ok |-> TRUE, payload |-> token.payload, message |-> ""]
        ELSE IF InstanceOf(err, "JsonWebTokenError")
        THEN [ok |-> FALSE, payload |-> NoClaims, message |-> "Invalid token"]
        ELSE IF InstanceOf(err, "TokenExpiredError")
        THEN [ok |-> FALSE, payload |-> NoClaims, message |-> "Token expired"]
        ELSE [ok |-> FALSE, payload |-> NoClaims,
              message |-> "Token verification failed"]

\* the Authorization header: absent, or a scheme followed by a token
NoHeader == [present |-> FALSE, scheme |-> "", token |-> NoToken]
Bearer(token) == [present |-> TRUE, scheme |-> "Bearer", token |-> token]
Basic(token) == [present |-> TRUE, scheme |-> "Basic", token |-> token]

\* an extraction that takes the token of any scheme
extractTokenFromHeader_AnyScheme(authHeader) ==
    IF ~authHeader.present THEN NoToken ELSE authHeader.token

\* extractTokenFromHeader: the token after 'Bearer ', NoToken for null
extractTokenFromHeader(authHeader) ==
    IF ~authHeader.present THEN NoToken
    ELSE IF authHeader.scheme # "Bearer" THEN NoToken
    ELSE authHeader.token

(***************************************************************************)
(* Responses and the error handler (middleware/errorHandler.ts).           *)
(***************************************************************************)
NullDate == -1

NoHash == [plain |-> <<>>, salt |-> 0, rounds |-> 0]
NoDoc == [_id |-> 0, name |-> "", email |-> <<>>, password |-> NoHash,
          mustChangePassword |-> FALSE, lastLogin |-> NullDate]
NoUser == [_id |-> 0, name |-> "", email |-> <<>>,
           mustChangePassword |-> FALSE, lastLogin |-> NullDate]

\* a response object that is the document itself
UserSafe_WholeDocument(user) == user

\* the UserSafe object the controllers build from a document
UserSafe(user) ==
    [_id |-> user._id, name |-> user.name, email |-> user.email,
     mustChangePassword |-> user.mustChangePassword,
     lastLogin |-> user.lastLogin]

NoResp == [status |-> 0, success |-> FALSE, error |-> "", about |-> <<>>,
           errors |-> <<>>, message |-> "", token |-> NoToken,
           user |-> NoUser, users |-> {}, total |-> 0,
           generatedPassword |-> <<>>]

\* res.status(code).json({success: true, message})
Success(code, message) ==
    [NoResp EXCEPT !.status = code, !.success = TRUE, !.message = message]

\* new AppError(message, statusCode): an error with a status of its own
AppError(message, about, statusCode) ==
    [class |-> "AppError", statusCode |-> statusCode, message |-> message,
     about |-> about, code |-> 0]

\* the errors the store raises
DuplicateKeyError(value) ==
    [class |-> "MongoServerError", statusCode |-> 0,
     message |-> "E11000 duplicate key error", about |-> value, code |-> 11000]
ValidationError ==
    [class |-> "ValidationError", statusCode |-> 0,
     message |-> "User validation failed", about |-> <<>>, code |-> 0]
CastError(value) ==
    [class |-> "CastError", statusCode |-> 0,
     message |-> "Cast to ObjectId failed", about |-> value, code |-> 0]
DocumentNotFoundError ==
    [class |-> "DocumentNotFoundError", statusCode |-> 0,
     message |-> "No document found for query", about |-> <<>>, code |-> 0]

\* handleDuplicateKeyError: "Email '<value>' already exists"
handleDuplicateKeyError(err) == "Email already exists"

\* an error handler without the branch for duplicate keys
errorHandler_NoDuplicateKey(err) ==
    [NoResp EXCEPT !.status = IF err.statusCode # 0 THEN err.statusCode
                              ELSE 500,
                   !.error = err.message, !.about = err.about]

\* errorHandler: the response for an error a handler has thrown
errorHandler(err) ==
    LET statusCode == IF err.code = 11000 THEN 409
                      ELSE IF err.class = "CastError" THEN 400
                      ELSE IF err.class = "ValidationError" THEN 400
                      ELSE IF err.statusCode # 0 THEN err.statusCode
                      ELSE 500
        message == IF err.code = 11000 THEN handleDuplicateKeyError(err)
                   ELSE IF err.class = "CastError" THEN "Invalid _id"
                   ELSE IF err.class = "ValidationError" THEN "Validation error"
                   ELSE err.message
    IN  [NoResp EXCEPT !.status = statusCode, !.error = message,
                       !.about = err.about,
                       !.errors = IF err.class = "ValidationError"
                                  THEN <<"Validation error">> ELSE <<>>]

(***************************************************************************)
(* Authentication middleware (middleware/auth.ts).                         *)
(***************************************************************************)
\* a middleware that turns away the tokens of earlier logouts
authenticate_Revoking(authHeader, t) ==
    LET token == extractTokenFromHeader(authHeader)
        decoded == verifyToken(token, t)
    IN  IF token = NoToken
        THEN [next |-> FALSE, user |-> NoClaims,
              resp |-> [NoResp EXCEPT !.status = 401, !.error =
                 "Authentication required. Please provide a valid token."]]
        ELSE IF decoded.ok /\ token \notin loggedOut
        THEN [next |-> TRUE, user |-> decoded.payload, resp |-> NoResp]
        ELSE [next |-> FALSE, user |-> NoClaims,
              resp |-> [NoResp EXCEPT !.status = 401,
                                      !.error = "Invalid token"]]

\* an optional middleware that turns away a token which does not verify
optionalAuthenticate_Rejecting(authHeader, t) ==
    LET token == extractTokenFromHeader(authHeader)
        decoded == verifyToken(token, t)
    IN  IF token = NoToken
        THEN [next |-> 1, user |-> NoClaims, resp |-> NoResp]
        ELSE IF decoded.ok
        THEN [next |-> 1, user |-> decoded.payload, resp |-> NoResp]
        ELSE [next |-> 0, user |-> NoClaims,
              resp |-> [NoResp EXCEPT !.status = 401,
                                      !.error = decoded.message]]

\* optionalAuthenticate at instant t: req.user if the token verifies, the
\* number of calls of next(), the response it sends (none)
optionalAuthenticate(authHeader, t) ==
    LET token == extractTokenFromHeader(authHeader)
        decoded == verifyToken(token, t)
    IN  IF token = NoToken
        THEN [next |-> 1, user |-> NoClaims, resp |-> NoResp]
        ELSE IF decoded.ok
        THEN [next |-> 1, user |-> decoded.payload, resp |-> NoResp]
        ELSE [next |-> 1, user |-> NoClaims, resp |-> NoResp]

\* authenticate at instant t: req.user and next(), or the 401 it answers
authenticate(authHeader, t) ==
    LET token == extractTokenFromHeader(authHeader)
        decoded == verifyToken(token, t)
    IN  IF token = NoToken
        THEN [next |-> FALSE, user |-> NoClaims,
              resp |-> [NoResp EXCEPT !.status = 401, !.error =
                 "Authentication required. Please provide a valid token."]]
        ELSE IF decoded.ok
        THEN [next |-> TRUE, user |-> decoded.payload, resp |-> NoResp]
        ELSE [next |-> FALSE, user |-> NoClaims,
              resp |-> [NoResp EXCEPT !.status = 401,
                                      !.error = decoded.message]]

(***************************************************************************)
(* The User collection (models/User.ts) and Mongoose's operations on it.   *)
(***************************************************************************)
Ids == 1..MaxId

\* ObjectId.prototype.toString: the hexadecimal digits of an _id, in lower
\* case (a letter and the digit that tells the ids of the model apart)
ObjectIdToString(id) == <<"a", DigitSeq[id + 1]>>

\* the cast of a string to ObjectId: the digits are read in either case;
\* 0 for a string that is no hexadecimal number (Mongoose's CastError)
castObjectId(value) ==
    IF \E id \in Ids : ObjectIdToString(id) = toLowerCase(value)
    THEN CHOOSE id \in Ids : ObjectIdToString(id) = toLowerCase(value)
    ELSE 0

MinNameLength == 2

\* the name validators of the schema
ValidName(name) == Len(name) >= MinNameLength

\* the match validator of the schema: /^[^\s@]+@[^\s@]+\.[^\s@]+$/
ValidEmail(email) ==
    \E i, j \in 1..Len(email) :
        /\ 1 < i /\ i + 1 < j /\ j < Len(email)
        /\ email[i] = "@" /\ email[j] = "."
        /\ \A k \in 1..Len(email) : k # i => email[k] \notin {"@", " "}

\* the setters of the schema's email path (lowercase: true)
castEmail(email) == toLowerCase(email)

\* User.findOne({email}): the one document with that email, NoDoc for null
findOne(us, email) ==
    IF \E id \in DOMAIN us : us[id].email = email
    THEN us[CHOOSE id \in DOMAIN us : us[id].email = email]
    ELSE NoDoc

\* User.findById(id)
findById(us, id) == IF id \in DOMAIN us THEN us[id] ELSE NoDoc

\* a collection without the unique index
Collides_NoIndex(us, id, email) == FALSE

\* the unique index on email: would the value collide with another document
Collides(us, id, email) ==
    \E other \in DOMAIN us : other # id /\ us[other].email = email

\* a document with the modified paths of a $set written into it
ApplySet(doc, set) ==
    [f \in DOMAIN doc |-> IF f \in DOMAIN set THEN set[f] ELSE doc[f]]

NoError == [class |-> "none", statusCode |-> 0, message |-> "",
            about |-> <<>>, code |-> 0]

\* a save that inserts the document when the collection no longer has it
save_Upsert(us, id, set) ==
    IF DOMAIN set = {}
    THEN [err |-> NoError, users |-> us]
    ELSE [err |-> NoError,
          users |-> [other \in DOMAIN us \cup {id} |->
                        IF other # id THEN us[other]
                        ELSE IF id \in DOMAIN us THEN ApplySet(us[id], set)
                        ELSE ApplySet([NoDoc EXCEPT !._id = id], set)]]

\* document.save() of a loaded document: only the modified paths are
\* validated and written, with one updateOne on the _id; nothing is sent
\* when no path is modified, and a document that is gone is an error
save(us, id, set) ==
    IF DOMAIN set = {}
    THEN [err |-> NoError, users |-> us]
    ELSE IF \/ "name" \in DOMAIN set /\ ~ValidName(set.name)
            \/ "email" \in DOMAIN set /\ ~ValidEmail(set.email)
    THEN [err |-> ValidationError, users |-> us]
    ELSE IF id \notin DOMAIN us
    THEN [err |-> DocumentNotFoundError, users |-> us]
    ELSE IF "email" \in DOMAIN set /\ Collides(us, id, castEmail(set.email))
    THEN [err |-> DuplicateKeyError(castEmail(set.email)), users |-> us]
    ELSE [err |-> NoError,
          users |-> [us EXCEPT ![id] =
                        IF "email" \in DOMAIN set
                        THEN [ApplySet(us[id], set) EXCEPT
                                 !.email = castEmail(set.email)]
                        ELSE ApplySet(us[id], set)]]

\* a create that inserts the document before it reports the collision
create_InsertThenFail(us, doc) ==
    IF ~ValidName(doc.name) \/ ~ValidEmail(doc.email)
    THEN [err |-> ValidationError, users |-> us]
    ELSE [err |-> IF Collides(us, doc._id, castEmail(doc.email))
                  THEN DuplicateKeyError(castEmail(doc.email)) ELSE NoError,
          users |-> [id \in DOMAIN us \cup {doc._id} |->
                        IF id = doc._id
                        THEN [doc EXCEPT !.email = castEmail(doc.email)]
                        ELSE us[id]]]

\* User.create(doc): validation, then one insert under the unique index
create(us, doc) ==
    IF ~ValidName(doc.name) \/ ~ValidEmail(doc.email)
    THEN [err |-> ValidationError, users |-> us]
    ELSE IF Collides(us, doc._id, castEmail(doc.email))
    THEN [err |-> DuplicateKeyError(castEmail(doc.email)), users |-> us]
    ELSE [err |-> NoError,
          users |-> [id \in DOMAIN us \cup {doc._id} |->
                        IF id = doc._id
                        THEN [doc EXCEPT !.email = castEmail(doc.email)]
                        ELSE us[id]]]

\* User.findByIdAndDelete(id): the collection without the document
findByIdAndDelete(us, id) == [other \in DOMAIN us \ {id} |-> us[other]]

(***************************************************************************)
(* The values the clients send.                                            *)
(***************************************************************************)
AdminEmail == <<"a","d","m","i","n","@","a","s","s","e","t","b","r","i","d","g","e",".","c","o","m">>
JaneEmail == <<"j","a","n","e",".","s","m","i","t","h","@","a","s","s","e","t","b","r","i","d","g","e",".","c","o","m">>
NewUserEmail == <<"n","e","w","u","s","e","r","@","e","x","a","m","p","l","e",".","c","o","m">>
NewUserEmailMixed == <<"N","e","w","U","s","e","r","@","E","x","a","m","p","l","e",".","c","o","m">>
JaneEmailUpper == <<"J","a","n","e",".","S","m","i","t","h","@","A","s","s","e","t","B","r","i","d","g","e",".","c","o","m">>

AdminPassword == <<"A","d","m","i","n","1","2","3","!">>
SeedGeneratedPassword == <<"G","e","n","e","r","a","t","e","d","1","2","3","!">>
NewPassword == <<"N","e","w","P","a","s","s","w","o","r","d","4","5","6","!">>
WeakPassword == <<"w","e","a","k">>

Names == {"New User"}
\* a field the body leaves out reads as the empty string here
Missing == <<>>

\* the bodies of updateUser: a name, an email, both, neither
UpdateBodies ==
    {[name |-> "New User", email |-> Missing],
     [name |-> "", email |-> NewUserEmailMixed],
     [name |-> "New User", email |-> NewUserEmailMixed],
     [name |-> "", email |-> Missing]}

\* the :id of a path as deleteUser's clients write it: the string of an
\* _id, the same in upper case, a string that is no ObjectId
PathIds ==
    {ObjectIdToString(id) : id \in Ids}
    \cup {toUpperCase(ObjectIdToString(id)) : id \in Ids}
    \cup {<<"x","y","z">>}

\* the accounts of scripts/seed.ts
SeedUsers ==
    [id \in {1, 2} |->
        IF id = 1
        THEN [_id |-> 1, name |-> "Admin User", email |-> AdminEmail,
              password |-> hashPassword(AdminPassword, 1),
              mustChangePassword |-> FALSE, lastLogin |-> NullDate]
        ELSE [_id |-> 2, name |-> "Jane Smith", email |-> JaneEmail,
              password |-> hashPassword(SeedGeneratedPassword, 1),
              mustChangePassword |-> TRUE, lastLogin |-> NullDate]]

(***************************************************************************)
(* Requests.  A slot holds one request from its arrival to the moment the  *)
(* client has read the response.                                           *)
(***************************************************************************)
\* the last successful change of an account's password (history)
\* (raced: it overwrote a change made after the request had read the record)
NoChange == [changed |-> FALSE, restricted |-> FALSE, raced |-> FALSE,
             old |-> <<>>, new |-> <<>>]

\* the calls a handler has made so far: of the User model for a read
\* (findOne, findById), of bcrypt (hash, compare), of the User model for a
\* write (save, create)
NoCalls == [reads |-> 0, hashes |-> 0, writes |-> 0]
Called(calls, reads, hashes, writes) ==
    [reads |-> calls.reads + reads, hashes |-> calls.hashes + hashes,
     writes |-> calls.writes + writes]

IdleReq ==
    [op |-> "none", pc |-> "idle", header |-> NoHeader, user |-> NoClaims,
     id |-> 0, param |-> <<>>, next |-> 0, name |-> "", email |-> <<>>,
     password |-> <<>>,
     newPassword |-> <<>>, doc |-> NoDoc, total |-> 0,
     generatedPassword |-> <<>>, hashedPassword |-> NoHash,
     seen |-> NoChange, calls |-> NoCalls, resp |-> NoResp]

\* the Authorization headers a client can send: none, no JWT at all, a
\* token it was issued, the same under another scheme, a token signed with
\* a secret of its own
Headers ==
    {NoHeader, Bearer(MalformedToken), Basic(generateToken(1, AdminEmail, 0)),
     Bearer(ForgedToken(1, AdminEmail, 0))}
    \cup {Bearer(t) : t \in issued}

\* the state of the Users page: the create dialog, the password it shows,
\* the request of handleCreateUser and the requests of fetchUsers in
\* flight, a fetchUsers that has been called and not yet sent
NoPage ==
    [mounted |-> FALSE, showCreateModal |-> FALSE, generatedPassword |-> <<>>,
     creating |-> FALSE, create |-> "none", loading |-> FALSE,
     fetches |-> {}, refresh |-> FALSE, users |-> {}, total |-> 0,
     error |-> ""]

\* the seeded collection, each seeded account logged in at instant 0
Seeded ==
    /\ users = [id \in DOMAIN SeedUsers |->
                   [SeedUsers[id] EXCEPT !.lastLogin = 0]]
    /\ nextId = 3
    /\ now = 0
    /\ issued = {generateToken(id, SeedUsers[id].email, 0) :
                    id \in DOMAIN SeedUsers}
    /\ reqs = [r \in Slots |-> IdleReq]
    /\ served = 0
    /\ changes = [id \in Ids |-> NoChange]
    /\ loggedOut = {}

\* the state of the single-page application: what localStorage holds
\* (token), the location of the router (pathname; requested is the path of
\* the last navigation), the state of AuthProvider (user, loading, error),
\* the operation of AuthProvider that awaits its response (pc) with the
\* credentials it has sent and the slot of its request at the server, the
\* state of the Login and ChangePassword pages (validationError, and error
\* and success of ChangePassword as pageError and success),
\* the path of the navigate() call and the console.error message of the last
\* action (navigated and console, none: "") and what the routes display
\* (screen)
NoApp ==
    [mounted |-> FALSE, token |-> NoToken, pathname |-> "", requested |-> "",
     user |-> NoUser, loading |-> TRUE, error |-> "", pc |-> "idle",
     email |-> <<>>, password |-> <<>>, newPassword |-> <<>>,
     slot |-> "none", validationError |-> "", pageError |-> "",
     success |-> FALSE, navigated |-> "", console |-> "", screen |-> ""]

Init == Seeded /\ page = NoPage /\ app = NoApp

\* res.json() hands the response over within the step that produces it: no
\* handler runs while a response is on its way out
Quiet == \A s \in Slots : reqs[s].pc # "done"

\* a request arrives and takes the first free slot
Arrive(r, op, header) ==
    /\ Quiet
    /\ reqs[r].pc = "idle"
    /\ r = "r1" \/ reqs["r1"].pc # "idle"
    /\ served < MaxRequests
    /\ served' = served + 1

NewReq(op, header) == [IdleReq EXCEPT !.op = op, !.header = header]

\* the handler goes on at the step pc
Goto(r, req, pc) == reqs' = [reqs EXCEPT ![r] = [req EXCEPT !.pc = pc]]

\* res.status(..).json(..): the request is answered
Respond(r, req, resp) ==
    reqs' = [reqs EXCEPT ![r] = [req EXCEPT !.pc = "done", !.resp = resp]]

\* asyncHandler: an error a handler throws goes to the error handler
Throw(r, req, err) == Respond(r, req, errorHandler(err))

(***************************************************************************)
(* Authentication controller (controllers/authController.ts).              *)
(***************************************************************************)
\* checks that tell an unknown email from a wrong password
loginCheck_Revealing(email, password, user) ==
    IF email = Missing \/ password = Missing
    THEN AppError("Email and password are required", <<>>, 400)
    ELSE IF user = NoDoc
    THEN AppError("User not found", <<>>, 404)
    ELSE IF ~comparePassword(password, user.password)
    THEN AppError("Invalid email or password", <<>>, 401)
    ELSE NoError

\* the checks of login: the error it throws, NoError if it goes on
loginCheck(email, password, user) ==
    IF email = Missing \/ password = Missing
    THEN AppError("Email and password are required", <<>>, 400)
    ELSE IF user = NoDoc
    THEN AppError("Invalid email or password", <<>>, 401)
    ELSE IF ~comparePassword(password, user.password)
    THEN AppError("Invalid email or password", <<>>, 401)
    ELSE NoError

\* the calls of login up to its checks: User.findOne unless a field is
\* missing, comparePassword if the user is found
loginCalls(email, password, user) ==
    IF email = Missing \/ password = Missing THEN NoCalls
    ELSE IF user = NoDoc THEN Called(NoCalls, 1, 0, 0)
    ELSE Called(NoCalls, 1, 1, 0)

\* a filter with the email as the client wrote it
loginFilter_AsGiven(email) == email

\* the email of login's filter: {email: email.toLowerCase()}
loginFilter(email) == toLowerCase(email)

\* login up to the lookup of the user and the comparison of the password
login(r, email, password) ==
    LET user == IF email = Missing \/ password = Missing THEN NoDoc
                ELSE findOne(users, loginFilter(email))
        req == [NewReq("login", NoHeader) EXCEPT
                   !.email = email, !.password = password, !.doc = user,
                   !.calls = loginCalls(email, password, user),
                   !.seen = IF user = NoDoc THEN NoChange
                            ELSE changes[user._id]]
        err == loginCheck(email, password, user)
    IN  /\ Arrive(r, "login", NoHeader)
        /\ UNCHANGED <<users, nextId, now, issued, changes, loggedOut>>
        /\ IF err # NoError THEN Throw(r, req, err) ELSE Goto(r, req, "save")

\* a save that writes the whole document as login has read it
loginUpdate_WholeDocument(user, t) ==
    [f \in DOMAIN user \ {"_id", "email", "name"} |->
        IF f = "lastLogin" THEN t ELSE user[f]]

\* a save that is left out
loginUpdate_Nothing(user, t) == <<>>

\* the modified paths of login's save
loginUpdate(user, t) == [lastLogin |-> t]

\* login from the generation of the token: user.save() and the response
loginSave(r) ==
    LET req == [reqs[r] EXCEPT !.calls = Called(@, 0, 0, 1)]
        token == generateToken(req.doc._id, req.doc.email, now)
        set == loginUpdate(req.doc, now)
        saved == save(users, req.doc._id, set)
        user == ApplySet(req.doc, set)
    IN  /\ Quiet
        /\ req.op = "login" /\ req.pc = "save"
        /\ UNCHANGED <<nextId, now, served, changes, loggedOut>>
        /\ users' = saved.users
        /\ IF saved.err # NoError
           THEN /\ Throw(r, req, saved.err)
                /\ UNCHANGED issued
           ELSE /\ issued' = issued \cup {token}
                /\ Respond(r, [req EXCEPT !.doc = user],
                           [Success(200, "Login successful") EXCEPT
                               !.token = token, !.user = UserSafe(user)])

\* logout: nothing but the response (loggedOut is history: the tokens
\* presented at a logout that was answered 200)
logout(r, header) ==
    LET req == NewReq("logout", header)
        auth == authenticate(header, now)
    IN  /\ Arrive(r, "logout", header)
        /\ UNCHANGED <<users, nextId, now, issued, changes>>
        /\ IF ~auth.next
           THEN /\ Respond(r, req, auth.resp)
                /\ UNCHANGED loggedOut
           ELSE /\ Respond(r, [req EXCEPT !.user = auth.user],
                           Success(200, "Logout successful"))
                /\ loggedOut' = loggedOut \cup {header.token}

\* checks that answer a missing record like a missing identity
getCurrentUserCheck_Unauthorized(userId, user) ==
    IF userId = 0 \/ user = NoDoc
    THEN AppError("User not authenticated", <<>>, 401)
    ELSE NoError

\* the checks of getCurrentUser: the error it throws, NoError if none
getCurrentUserCheck(userId, user) ==
    IF userId = 0
    THEN AppError("User not authenticated", <<>>, 401)
    ELSE IF user = NoDoc
    THEN AppError("User not found", <<>>, 404)
    ELSE NoError

\* getCurrentUser: the user of the token's userId
getCurrentUser(r, header) ==
    LET req == NewReq("getCurrentUser", header)
        auth == authenticate(header, now)
        user == findById(users, auth.user.userId)
        req1 == [req EXCEPT !.user = auth.user, !.doc = user]
        err == getCurrentUserCheck(auth.user.userId, user)
    IN  /\ Arrive(r, "getCurrentUser", header)
        /\ UNCHANGED <<users, nextId, now, issued, changes, loggedOut>>
        /\ IF ~auth.next
           THEN Respond(r, req, auth.resp)
           ELSE IF err # NoError
           THEN Throw(r, req1, err)
           ELSE Respond(r, req1,
                        [Success(200, "") EXCEPT !.user = UserSafe(user)])

\* a changePassword that compares the current password before it
\* validates the new one
changePassword_CompareFirst(r, header, currentPassword, newPassword) ==
    LET req == [NewReq("changePassword", header) EXCEPT
                   !.password = currentPassword, !.newPassword = newPassword]
        auth == authenticate(header, now)
        passwordErrors == validatePassword(newPassword)
        user == findById(users, auth.user.userId)
        req1 == [req EXCEPT !.user = auth.user]
        req2 == [req1 EXCEPT !.doc = user]
    IN  /\ Arrive(r, "changePassword", header)
        /\ UNCHANGED <<users, nextId, now, issued, changes, loggedOut>>
        /\ IF ~auth.next
           THEN Respond(r, NewReq("changePassword", header), auth.resp)
           ELSE IF auth.user.userId = 0
           THEN Throw(r, req1, AppError("User not authenticated", <<>>, 401))
           ELSE IF currentPassword = Missing \/ newPassword = Missing
           THEN Throw(r, req1,
                      AppError("Current password and new password are required",
                               <<>>, 400))
           ELSE IF user = NoDoc
           THEN Throw(r, req2, AppError("User not found", <<>>, 404))
           ELSE IF ~comparePassword(currentPassword, user.password)
           THEN Throw(r, req2,
                      AppError("Current password is incorrect", <<>>, 401))
           ELSE IF Len(passwordErrors) > 0
           THEN Respond(r, req1,
                        [NoResp EXCEPT !.status = 400,
                            !.error = "Password does not meet requirements",
                            !.errors = passwordErrors])
           ELSE IF comparePassword(newPassword, user.password)
           THEN Throw(r, req2,
                      AppError("New password must be different from current password",
                               <<>>, 400))
           ELSE Goto(r, req2, "save")

\* a changePassword that clears mustChangePassword before it compares
changePassword_ClearFirst(r, header, currentPassword, newPassword) ==
    LET req == [NewReq("changePassword", header) EXCEPT
                   !.password = currentPassword, !.newPassword = newPassword]
        auth == authenticate(header, now)
        passwordErrors == validatePassword(newPassword)
        user == findById(users, auth.user.userId)
        req1 == [req EXCEPT !.user = auth.user]
        req2 == [req1 EXCEPT !.doc = user]
        found == /\ auth.next /\ auth.user.userId # 0
                 /\ currentPassword # Missing /\ newPassword # Missing
                 /\ Len(passwordErrors) = 0 /\ user # NoDoc
    IN  /\ Arrive(r, "changePassword", header)
        /\ UNCHANGED <<nextId, now, issued, changes, loggedOut>>
        /\ users' = IF found
                    THEN [users EXCEPT ![user._id].mustChangePassword = FALSE]
                    ELSE users
        /\ IF ~auth.next
           THEN Respond(r, NewReq("changePassword", header), auth.resp)
           ELSE IF auth.user.userId = 0
           THEN Throw(r, req1, AppError("User not authenticated", <<>>, 401))
           ELSE IF currentPassword = Missing \/ newPassword = Missing
           THEN Throw(r, req1,
                      AppError("Current password and new password are required",
                               <<>>, 400))
           ELSE IF Len(passwordErrors) > 0
           THEN Respond(r, req1,
                        [NoResp EXCEPT !.status = 400,
                            !.error = "Password does not meet requirements",
                            !.errors = passwordErrors])
           ELSE IF user = NoDoc
           THEN Throw(r, req2, AppError("User not found", <<>>, 404))
           ELSE IF ~comparePassword(currentPassword, user.password)
           THEN Throw(r, req2,
                      AppError("Current password is incorrect", <<>>, 401))
           ELSE IF comparePassword(newPassword, user.password)
           THEN Throw(r, req2,
                      AppError("New password must be different from current password",
                               <<>>, 400))
           ELSE Goto(r, req2, "save")

\* a changePassword that looks the user up again for the second comparison
changePasswordCalls_Reread(user, currentPassword, newPassword) ==
    IF user = NoDoc THEN Called(NoCalls, 1, 0, 0)
    ELSE IF ~comparePassword(currentPassword, user.password)
    THEN Called(NoCalls, 1, 1, 0)
    ELSE Called(NoCalls, 2, 2, 0)

\* the calls of changePassword from User.findById up to its checks:
\* comparePassword with the current password if the user is found, and
\* comparePassword with the new password if the current one is right
changePasswordCalls(user, currentPassword, newPassword) ==
    IF user = NoDoc THEN Called(NoCalls, 1, 0, 0)
    ELSE IF ~comparePassword(currentPassword, user.password)
    THEN Called(NoCalls, 1, 1, 0)
    ELSE Called(NoCalls, 1, 2, 0)

\* changePassword up to the comparisons with the stored hash
changePassword(r, header, currentPassword, newPassword) ==
    LET req == [NewReq("changePassword", header) EXCEPT
                   !.password = currentPassword, !.newPassword = newPassword]
        auth == authenticate(header, now)
        passwordErrors == validatePassword(newPassword)
        user == findById(users, auth.user.userId)
        req1 == [req EXCEPT !.user = auth.user]
        req2 == [req1 EXCEPT !.doc = user,
                             !.calls = changePasswordCalls(user,
                                          currentPassword, newPassword)]
    IN  /\ Arrive(r, "changePassword", header)
        /\ UNCHANGED <<users, nextId, now, issued, changes, loggedOut>>
        /\ IF ~auth.next
           THEN Respond(r, NewReq("changePassword", header), auth.resp)
           ELSE IF auth.user.userId = 0
           THEN Throw(r, req1, AppError("User not authenticated", <<>>, 401))
           ELSE IF currentPassword = Missing \/ newPassword = Missing
           THEN Throw(r, req1,
                      AppError("Current password and new password are required",
                               <<>>, 400))
           ELSE IF Len(passwordErrors) > 0
           THEN Respond(r, req1,
                        [NoResp EXCEPT !.status = 400,
                            !.error = "Password does not meet requirements",
                            !.errors = passwordErrors])
           ELSE IF user = NoDoc
           THEN Throw(r, req2, AppError("User not found", <<>>, 404))
           ELSE IF ~comparePassword(currentPassword, user.password)
           THEN Throw(r, req2,
                      AppError("Current password is incorrect", <<>>, 401))
           ELSE IF comparePassword(newPassword, user.password)
           THEN Throw(r, req2,
                      AppError("New password must be different from current password",
                               <<>>, 400))
           ELSE Goto(r, req2, "save")

\* a save that writes the new hash and leaves the flag as it is
changePasswordUpdate_KeepFlag(user, hashedPassword) ==
    [password |-> hashedPassword]

\* a save that clears the flag and leaves the hash as it is
changePasswordUpdate_FlagOnly(user, hashedPassword) ==
    IF user.mustChangePassword THEN [mustChangePassword |-> FALSE] ELSE <<>>

\* the modified paths of changePassword's save
changePasswordUpdate(user, hashedPassword) ==
    IF user.mustChangePassword
    THEN [password |-> hashedPassword, mustChangePassword |-> FALSE]
    ELSE [password |-> hashedPassword]

\* changePassword from the hashing of the new password on
changePasswordSave(r, salt) ==
    LET req == [reqs[r] EXCEPT !.hashedPassword =
                                  hashPassword(reqs[r].newPassword, salt),
                               !.calls = Called(@, 0, 1, 1)]
        set == changePasswordUpdate(req.doc, req.hashedPassword)
        saved == save(users, req.doc._id, set)
    IN  /\ Quiet
        /\ req.op = "changePassword" /\ req.pc = "save"
        /\ UNCHANGED <<nextId, now, issued, served, loggedOut>>
        /\ users' = saved.users
        /\ IF saved.err # NoError
           THEN /\ Throw(r, req, saved.err)
                /\ UNCHANGED changes
           ELSE /\ changes' = [changes EXCEPT ![req.doc._id] =
                                  [changed |-> TRUE,
                                   restricted |->
                                       req.doc.mustChangePassword,
                                   raced |->
                                       users[req.doc._id].password
                                          # req.doc.password,
                                   old |-> req.password,
                                   new |-> req.newPassword]]
                /\ Respond(r, req,
                           Success(200, "Password changed successfully"))

(***************************************************************************)
(* User controller (controllers/userController.ts).                        *)
(***************************************************************************)
\* getUsers up to User.countDocuments (first page, no search term)
getUsers(r, header) ==
    LET req == NewReq("getUsers", header)
        auth == authenticate(header, now)
    IN  /\ Arrive(r, "getUsers", header)
        /\ UNCHANGED <<users, nextId, now, issued, changes, loggedOut>>
        /\ IF ~auth.next
           THEN Respond(r, req, auth.resp)
           ELSE Goto(r, [req EXCEPT !.user = auth.user,
                                    !.total = Cardinality(DOMAIN users)],
                     "find")

\* getUsers from User.find on
getUsersFind(r) ==
    LET req == reqs[r]
    IN  /\ Quiet
        /\ req.op = "getUsers" /\ req.pc = "find"
        /\ UNCHANGED <<users, nextId, now, issued, served, changes, loggedOut>>
        /\ Respond(r, req,
                   [Success(200, "") EXCEPT
                       !.users = {UserSafe(users[id]) : id \in DOMAIN users},
                       !.total = req.total])

\* createUser up to the check for a user with the email
createUser(r, header, name, email) ==
    LET req == [NewReq("createUser", header) EXCEPT !.name = name,
                                                    !.email = email]
        auth == authenticate(header, now)
        existingUser == findOne(users, toLowerCase(email))
        req1 == [req EXCEPT !.user = auth.user]
        req2 == [req1 EXCEPT !.calls = Called(@, 1, 0, 0)]
    IN  /\ Arrive(r, "createUser", header)
        /\ UNCHANGED <<users, nextId, now, issued, changes, loggedOut>>
        /\ IF ~auth.next
           THEN Respond(r, NewReq("createUser", header), auth.resp)
           ELSE IF name = "" \/ email = Missing
           THEN Throw(r, req1, AppError("Name and email are required",
                                        <<>>, 400))
           ELSE IF existingUser # NoDoc
           THEN Throw(r, req2, AppError("Email already exists", email, 409))
           ELSE Goto(r, req2, "create")

\* a document for an account that need not change its password
createUserDoc_Unrestricted(id, name, email, hashedPassword) ==
    [_id |-> id, name |-> name, email |-> toLowerCase(email),
     password |-> hashedPassword, mustChangePassword |-> FALSE,
     lastLogin |-> NullDate]

\* the document createUser hands to User.create
createUserDoc(id, name, email, hashedPassword) ==
    [_id |-> id, name |-> name, email |-> toLowerCase(email),
     password |-> hashedPassword, mustChangePassword |-> TRUE,
     lastLogin |-> NullDate]

\* createUser from the generation of the password on
createUserCreate(r, generatedPassword, salt) ==
    LET req == [reqs[r] EXCEPT
                   !.generatedPassword = generatedPassword,
                   !.hashedPassword = hashPassword(generatedPassword, salt),
                   !.calls = Called(@, 0, 1, 1)]
        user == createUserDoc(nextId, req.name, req.email, req.hashedPassword)
        created == create(users, user)
    IN  /\ Quiet
        /\ req.op = "createUser" /\ req.pc = "create"
        /\ created.err = NoError => nextId <= MaxId
        /\ UNCHANGED <<now, issued, served, changes, loggedOut>>
        /\ users' = created.users
        /\ IF created.err # NoError
           THEN /\ Throw(r, req, created.err)
                /\ UNCHANGED nextId
           ELSE /\ nextId' = nextId + 1
                /\ Respond(r, [req EXCEPT !.doc = user],
                           [Success(201, "User created successfully") EXCEPT
                               !.user = UserSafe(user),
                               !.generatedPassword = req.generatedPassword])

\* getUserById: the user of the id of the path
getUserById(r, header, id) ==
    LET req == [NewReq("getUserById", header) EXCEPT !.id = id]
        auth == authenticate(header, now)
        user == findById(users, id)
        req1 == [req EXCEPT !.user = auth.user, !.doc = user]
    IN  /\ Arrive(r, "getUserById", header)
        /\ UNCHANGED <<users, nextId, now, issued, changes, loggedOut>>
        /\ IF ~auth.next
           THEN Respond(r, NewReq("getUserById", header), auth.resp)
           ELSE IF user = NoDoc
           THEN Throw(r, req1, AppError("User not found", <<>>, 404))
           ELSE Respond(r, req1,
                        [Success(200, "") EXCEPT !.user = UserSafe(user)])

\* updateUser up to User.findById
updateUser(r, header, id, name, email) ==
    LET req == [NewReq("updateUser", header) EXCEPT !.id = id,
                                                    !.name = name,
                                                    !.email = email]
        auth == authenticate(header, now)
        user == findById(users, id)
        req1 == [req EXCEPT !.user = auth.user, !.doc = user]
    IN  /\ Arrive(r, "updateUser", header)
        /\ UNCHANGED <<users, nextId, now, issued, changes, loggedOut>>
        /\ IF ~auth.next
           THEN Respond(r, NewReq("updateUser", header), auth.resp)
           ELSE IF name = "" /\ email = Missing
           THEN Throw(r, req1,
                      AppError("At least one field (name or email) must be provided",
                               <<>>, 400))
           ELSE IF user = NoDoc
           THEN Throw(r, req1, AppError("User not found", <<>>, 404))
           ELSE IF email # Missing /\ toLowerCase(email) # user.email
           THEN Goto(r, req1, "check")
           ELSE Goto(r, req1, "save")

\* updateUser's check for another user with the new email
updateUserCheck(r) ==
    LET req == reqs[r]
        existingUser == findOne(users, toLowerCase(req.email))
    IN  /\ Quiet
        /\ req.op = "updateUser" /\ req.pc = "check"
        /\ UNCHANGED <<users, nextId, now, issued, served, changes, loggedOut>>
        /\ IF existingUser # NoDoc
           THEN Throw(r, req, AppError("Email already exists", req.email, 409))
           ELSE Goto(r, req, "save")

\* the modified paths of updateUser's save
updateUserUpdate(user, name, email) ==
    LET nameSet == IF name # "" /\ name # user.name
                   THEN [name |-> name] ELSE <<>>
        emailSet == IF email # Missing /\ toLowerCase(email) # user.email
                    THEN [email |-> toLowerCase(email)] ELSE <<>>
    IN  [f \in DOMAIN nameSet \cup DOMAIN emailSet |->
            IF f \in DOMAIN nameSet THEN nameSet[f] ELSE emailSet[f]]

\* updateUser from user.save() on
updateUserSave(r) ==
    LET req == reqs[r]
        set == updateUserUpdate(req.doc, req.name, req.email)
        saved == save(users, req.doc._id, set)
        user == ApplySet(req.doc, set)
    IN  /\ Quiet
        /\ req.op = "updateUser" /\ req.pc = "save"
        /\ UNCHANGED <<nextId, now, issued, served, changes, loggedOut>>
        /\ users' = saved.users
        /\ IF saved.err # NoError
           THEN Throw(r, req, saved.err)
           ELSE Respond(r, [req EXCEPT !.doc = user],
                        [Success(200, "User updated successfully") EXCEPT
                            !.user = UserSafe(user)])

\* deleteUser: one findByIdAndDelete unless the id is the caller's own
deleteUser(r, header, param) ==
    LET auth == authenticate(header, now)
        id == castObjectId(param)
        req1 == [NewReq("deleteUser", header) EXCEPT
                    !.param = param, !.id = id, !.user = auth.user]
    IN  /\ Arrive(r, "deleteUser", header)
        /\ UNCHANGED <<nextId, now, issued, changes, loggedOut>>
        /\ IF ~auth.next
           THEN Respond(r, NewReq("deleteUser", header), auth.resp) /\ UNCHANGED users
           ELSE IF param = ObjectIdToString(auth.user.userId)
           THEN /\ Throw(r, req1,
                         AppError("You cannot delete your own account",
                                  <<>>, 400))
                /\ UNCHANGED users
           ELSE IF id = 0
           THEN /\ Throw(r, req1, CastError(param))
                /\ UNCHANGED users
           ELSE IF id \notin DOMAIN users
           THEN /\ Throw(r, req1, AppError("User not found", <<>>, 404))
                /\ UNCHANGED users
           ELSE /\ users' = findByIdAndDelete(users, id)
                /\ Respond(r, [req1 EXCEPT !.doc = users[id]],
                           Success(200, "User deleted successfully"))

(***************************************************************************)
(* The environment: clients and the clock.                                 *)
(***************************************************************************)
\* the client reads the response; the slot is free again
Receive(r) ==
    /\ reqs[r].pc = "done"
    /\ reqs' = [reqs EXCEPT ![r] = IdleReq]
    /\ UNCHANGED <<users, nextId, now, issued, served, changes, loggedOut>>

\* the clock advances by one token lifetime; no request is in flight that
\* long
Tick ==
    /\ \A s \in Slots : reqs[s].pc = "idle"
    /\ now < MaxTime
    /\ now' = now + 1
    /\ UNCHANGED <<users, nextId, issued, reqs, served, changes, loggedOut>>

Next ==
    \/ \E r \in Slots,
          email \in {JaneEmail, JaneEmailUpper, NewUserEmail, Missing},
          password \in {SeedGeneratedPassword, NewPassword, Missing}
                       \cup GeneratedPasswords :
          login(r, email, password) /\ UNCHANGED <<page, app>>
    \/ \E r \in Slots : loginSave(r) /\ UNCHANGED <<page, app>>
    \/ \E r \in Slots, header \in Headers : logout(r, header) /\ UNCHANGED <<page, app>>
    \/ \E r \in Slots, header \in Headers : getCurrentUser(r, header) /\ UNCHANGED <<page, app>>
    \/ \E r \in Slots, header \in Headers,
          currentPassword \in {SeedGeneratedPassword, NewPassword, Missing}
                              \cup GeneratedPasswords,
          newPassword \in {SeedGeneratedPassword, NewPassword, AdminPassword,
                           WeakPassword, Missing} :
          changePassword(r, header, currentPassword, newPassword) /\ UNCHANGED <<page, app>>
    \/ \E r \in Slots, salt \in Salts : changePasswordSave(r, salt) /\ UNCHANGED <<page, app>>
    \/ \E r \in Slots, header \in Headers : getUsers(r, header) /\ UNCHANGED <<page, app>>
    \/ \E r \in Slots : getUsersFind(r) /\ UNCHANGED <<page, app>>
    \/ \E r \in Slots, header \in Headers, name \in Names \cup {""},
          email \in {JaneEmailUpper, NewUserEmail, NewUserEmailMixed,
                     Missing} :
          createUser(r, header, name, email) /\ UNCHANGED <<page, app>>
    \/ \E r \in Slots, generatedPassword \in GeneratedPasswords,
          salt \in Salts :
          createUserCreate(r, generatedPassword, salt) /\ UNCHANGED <<page, app>>
    \/ \E r \in Slots, header \in Headers, id \in Ids :
          getUserById(r, header, id) /\ UNCHANGED <<page, app>>
    \/ \E r \in Slots, header \in Headers, id \in Ids,
          body \in UpdateBodies :
          updateUser(r, header, id, body.name, body.email) /\ UNCHANGED <<page, app>>
    \/ \E r \in Slots : updateUserCheck(r) /\ UNCHANGED <<page, app>>
    \/ \E r \in Slots : updateUserSave(r) /\ UNCHANGED <<page, app>>
    \/ \E r \in Slots, header \in Headers, param \in PathIds :
          deleteUser(r, header, param) /\ UNCHANGED <<page, app>>
    \/ \E r \in Slots : Receive(r) /\ UNCHANGED <<page, app>>
    \/ Tick /\ UNCHANGED <<page, app>>

Spec == Init /\ [][Next]_vars

(***************************************************************************)
(* The Users page (frontend, pages/Users.tsx), a client of the server: the *)
(* administrator of the seed has logged in and the page has listed the     *)
(* users.  Other clients log in and read and update users meanwhile.       *)
(***************************************************************************)
server == <<users, nextId, now, issued, reqs, served, changes, loggedOut>>

\* the Authorization header the API client of the page sends
PageHeader == Bearer(generateToken(1, SeedUsers[1].email, 0))

MountedPage ==
    [NoPage EXCEPT !.mounted = TRUE,
                   !.users = {UserSafe([SeedUsers[id] EXCEPT !.lastLogin = 0]) :
                                 id \in DOMAIN SeedUsers},
                   !.total = Cardinality(DOMAIN SeedUsers)]

PageInit == Seeded /\ page = MountedPage /\ app = NoApp

\* the requests of the page
PageSlots == {page.create} \cup page.fetches

\* the '+ Create User' button: setShowCreateModal(true)
openCreateModal ==
    /\ page.mounted /\ ~page.showCreateModal
    /\ page' = [page EXCEPT !.showCreateModal = TRUE]
    /\ UNCHANGED <<server, app>>

\* a dialog that closes and keeps the password in the state
closeCreateModalState_KeepPassword(p) ==
    [p EXCEPT !.showCreateModal = FALSE, !.error = ""]

\* the state closeCreateModal leaves
closeCreateModalState(p) ==
    [p EXCEPT !.showCreateModal = FALSE, !.generatedPassword = <<>>,
              !.error = ""]

\* closeCreateModal: the overlay, the cross, Close and Cancel; only Cancel
\* is disabled while the request is in flight
closeCreateModal ==
    /\ page.showCreateModal
    /\ page' = closeCreateModalState(page)
    /\ UNCHANGED <<server, app>>

\* handleCreateUser up to the await of api.createUser: the form is there
\* while no password is shown, its button is disabled while creating
handleCreateUser(r, name, email) ==
    /\ page.showCreateModal /\ page.generatedPassword = <<>>
    /\ ~page.creating
    /\ IF name = "" \/ email = Missing
       THEN /\ page' = [page EXCEPT !.error = "Name and email are required"]
            /\ UNCHANGED <<server, app>>
       ELSE /\ createUser(r, PageHeader, name, email)
            /\ page' = [page EXCEPT !.creating = TRUE, !.error = "",
                                    !.create = r]
            /\ UNCHANGED app

\* handleCreateUser from the response on: the password goes into the state
\* and fetchUsers is called (setLoading, setError and the request)
handleCreateUserResponse(r) ==
    LET resp == reqs[r].resp
    IN  /\ r = page.create
        /\ Receive(r)
        /\ page' = IF resp.success
                   THEN [page EXCEPT !.generatedPassword =
                                        resp.generatedPassword,
                                     !.loading = TRUE, !.error = "",
                                     !.refresh = TRUE,
                                     !.creating = FALSE, !.create = "none"]
                   ELSE [page EXCEPT !.error = resp.error,
                                     !.creating = FALSE, !.create = "none"]
        /\ UNCHANGED app

\* the request of fetchUsers reaches the server
fetchUsers(r) ==
    /\ page.refresh
    /\ getUsers(r, PageHeader)
    /\ page' = [page EXCEPT !.refresh = FALSE,
                            !.fetches = page.fetches \cup {r}]
    /\ UNCHANGED app

\* fetchUsers from the response on
fetchUsersResponse(r) ==
    LET resp == reqs[r].resp
    IN  /\ r \in page.fetches
        /\ Receive(r)
        /\ page' = IF resp.success
                   THEN [page EXCEPT !.users = resp.users,
                                     !.total = resp.total,
                                     !.loading = page.fetches # {r},
                                     !.fetches = page.fetches \ {r}]
                   ELSE [page EXCEPT !.error = resp.error,
                                     !.loading = page.fetches # {r},
                                     !.fetches = page.fetches \ {r}]
        /\ UNCHANGED app

\* the tokens the other clients hold
OtherHeaders == {Bearer(t) : t \in issued}

PageNext ==
    \/ openCreateModal
    \/ closeCreateModal
    \/ \E r \in Slots, name \in Names \cup {""},
          email \in {NewUserEmail, JaneEmailUpper} :
          handleCreateUser(r, name, email)
    \/ \E r \in Slots, generatedPassword \in GeneratedPasswords,
          salt \in Salts :
          createUserCreate(r, generatedPassword, salt) /\ UNCHANGED <<page, app>>
    \/ \E r \in Slots : handleCreateUserResponse(r)
    \/ \E r \in Slots : fetchUsers(r)
    \/ \E r \in Slots : getUsersFind(r) /\ UNCHANGED <<page, app>>
    \/ \E r \in Slots : fetchUsersResponse(r)
    \/ \E r \in Slots, email \in {NewUserEmail},
          password \in {NewPassword} \cup GeneratedPasswords :
          login(r, email, password) /\ UNCHANGED <<page, app>>
    \/ \E r \in Slots : loginSave(r) /\ UNCHANGED <<page, app>>
    \/ \E r \in Slots, header \in OtherHeaders :
          getCurrentUser(r, header) /\ UNCHANGED <<page, app>>
    \/ \E r \in Slots, header \in OtherHeaders, id \in Ids :
          getUserById(r, header, id) /\ UNCHANGED <<page, app>>
    \/ \E r \in Slots, header \in OtherHeaders, id \in Ids,
          body \in UpdateBodies :
          updateUser(r, header, id, body.name, body.email) /\ UNCHANGED <<page, app>>
    \/ \E r \in Slots : updateUserCheck(r) /\ UNCHANGED <<page, app>>
    \/ \E r \in Slots : updateUserSave(r) /\ UNCHANGED <<page, app>>
    \/ \E r \in Slots \ PageSlots : Receive(r) /\ UNCHANGED <<page, app>>
    \/ Tick /\ UNCHANGED <<page, app>>

SpecPage == PageInit /\ [][PageNext]_vars

(***************************************************************************)
(* The JWT utilities and the optional middleware on their own: slot r1     *)
(* holds the token generateToken has returned, slot r2 the outcome of the  *)
(* last verifyToken or optionalAuthenticate.                               *)
(***************************************************************************)
rest == <<users, nextId, issued, served, changes, loggedOut, page, app>>

\* generateToken(userId, email) at the current instant
GenerateToken(userId, email) ==
    /\ reqs' = [reqs EXCEPT
                   !["r1"] = [IdleReq EXCEPT
                                 !.op = "generateToken", !.pc = "done",
                                 !.id = userId, !.email = email,
                                 !.header =
                                    Bearer(generateToken(userId, email, now))],
                   !["r2"] = IdleReq]
    /\ UNCHANGED <<now, rest>>

\* the tokens handed to verifyToken: the one of r1, one that is no JWT,
\* the one of r1 signed with another secret
JwtTokens ==
    LET token == reqs["r1"].header.token
    IN  {token, MalformedToken,
         ForgedToken(token.payload.userId, token.payload.email,
                     token.payload.iat)}

\* verifyToken(token) at the current instant: the payload, or the message
\* of the Error thrown
VerifyToken(token) ==
    LET decoded == verifyToken(token, now)
    IN  /\ reqs["r1"].op = "generateToken"
        /\ reqs' = [reqs EXCEPT
                       !["r2"] = [IdleReq EXCEPT
                                     !.op = "verifyToken", !.pc = "done",
                                     !.header = Bearer(token),
                                     !.user = decoded.payload,
                                     !.resp = [NoResp EXCEPT
                                                  !.success = decoded.ok,
                                                  !.error = decoded.message]]]
        /\ UNCHANGED <<now, rest>>

\* the headers handed to optionalAuthenticate
JwtHeaders ==
    {NoHeader} \cup {Bearer(token) : token \in JwtTokens}
    \cup {Basic(token) : token \in JwtTokens}

\* a request passes optionalAuthenticate at the current instant
OptionalAuthenticate(header) ==
    LET auth == optionalAuthenticate(header, now)
    IN  /\ reqs["r1"].op = "generateToken"
        /\ reqs' = [reqs EXCEPT
                       !["r2"] = [IdleReq EXCEPT
                                     !.op = "optionalAuthenticate",
                                     !.pc = "done", !.header = header,
                                     !.user = auth.user, !.next = auth.next,
                                     !.resp = auth.resp]]
        /\ UNCHANGED <<now, rest>>

\* the clock advances
JwtTick ==
    /\ now < MaxTime
    /\ now' = now + 1
    /\ UNCHANGED <<reqs, rest>>

JwtNext ==
    \/ \E userId \in Ids, email \in {AdminEmail, JaneEmail} :
          GenerateToken(userId, email)
    \/ \E token \in JwtTokens : VerifyToken(token)
    \/ \E header \in JwtHeaders : OptionalAuthenticate(header)
    \/ JwtTick

SpecJwt == Init /\ [][JwtNext]_vars

(***************************************************************************)
(* The password utilities on their own: slot r1 holds the password         *)
(* generatePassword has returned, slot r2 the outcome of the last          *)
(* validatePassword.                                                       *)
(***************************************************************************)
\* the outcomes of crypto.randomInt for the four guaranteed characters:
\* the first and the last letter and digit, every symbol
GenFirstLast(charset) == {charset[1], charset[Len(charset)]}

\* the outcomes of the loop over allChars: RemainingLength times one
\* character, or a mix
GenRests ==
    {[i \in 1..RemainingLength |-> c] : c \in {"z", "0"}}
    \cup {GenRest}

\* the outcomes of the sort with the random comparator: the order kept,
\* reversed, neighbours exchanged
GenLength == 4 + RemainingLength
GenShuffles ==
    {[i \in 1..GenLength |-> i],
     [i \in 1..GenLength |-> (GenLength + 1) - i],
     [i \in 1..GenLength |-> IF i % 2 = 1 THEN i + 1 ELSE i - 1]}

\* generatePassword()
GeneratePassword(u, l, n, s, chars, perm) ==
    /\ reqs' = [reqs EXCEPT
                   !["r1"] = [IdleReq EXCEPT
                                 !.op = "generatePassword", !.pc = "done",
                                 !.generatedPassword =
                                    generatePassword(u, l, n, s, chars, perm)],
                   !["r2"] = IdleReq]
    /\ app' = NoApp
    /\ UNCHANGED <<now, users, nextId, issued, served, changes, loggedOut,
                   page>>

\* the passwords handed to validatePassword: every choice of the classes
\* present, at a length below, at and above the minimum; the empty string.
\* The symbols are of validatePassword's class, the last four outside the
\* alphabet of generatePassword; the pads are characters of no class of the
\* policy
PolicyPasswords ==
    {[i \in 1..length |->
        IF i = 1 /\ "upper" \in classes THEN "Q"
        ELSE IF i = 2 /\ "lower" \in classes THEN "q"
        ELSE IF i = 3 /\ "digit" \in classes THEN "7"
        ELSE IF i = 4 /\ "symbol" \in classes THEN symbol
        ELSE pad] :
        classes \in SUBSET {"upper", "lower", "digit", "symbol"},
        symbol \in {"!", "?", "-", "]", "\\"}, pad \in {"~", " "},
        length \in {4, MinPasswordLength - 1, MinPasswordLength,
                    MinPasswordLength + 1}}
    \cup {<<>>}

\* validatePassword of the ChangePassword page: the first unmet requirement,
\* "" for null; a symbol is any character but a letter or a digit
ChangePasswordValidate(password) ==
    IF Len(password) < 8 THEN MsgLength
    ELSE IF Range(password) \cap Range(LowerSeq) = {} THEN MsgLower
    ELSE IF Range(password) \cap Range(UpperSeq) = {} THEN MsgUpper
    ELSE IF Range(password) \cap Range(DigitSeq) = {} THEN MsgDigit
    ELSE IF Range(password) \subseteq
               Range(LowerSeq) \cup Range(UpperSeq) \cup Range(DigitSeq)
    THEN MsgSpecial
    ELSE ""

\* the form of the ChangePassword page with a validated new password
Validated(password) ==
    [NoApp EXCEPT !.mounted = TRUE, !.pathname = "/change-password",
                  !.screen = "ChangePassword", !.newPassword = password,
                  !.validationError = ChangePasswordValidate(password)]

\* validatePassword(password); r1 keeps the generated password, and the
\* form its verdict, only while theirs is the password validated
ValidatePassword(password) ==
    /\ reqs' = [reqs EXCEPT
                   !["r1"] = IF password = reqs["r1"].generatedPassword
                             THEN @ ELSE IdleReq,
                   !["r2"] = [IdleReq EXCEPT
                                 !.op = "validatePassword", !.pc = "done",
                                 !.password = password,
                                 !.resp = [NoResp EXCEPT
                                              !.errors =
                                                 validatePassword(password)]]]
    /\ app' = IF app = Validated(password) THEN app ELSE NoApp
    /\ UNCHANGED <<now, users, nextId, issued, served, changes, loggedOut,
                   page>>

\* validatePassword(password) of the ChangePassword page; r1 and r2 keep
\* what they hold only while theirs is the password validated
ChangePasswordValidatePassword(password) ==
    /\ app' = Validated(password)
    /\ reqs' = [reqs EXCEPT
                   !["r1"] = IF password = reqs["r1"].generatedPassword
                             THEN @ ELSE IdleReq,
                   !["r2"] = IF /\ reqs["r2"].op = "validatePassword"
                                /\ reqs["r2"].password = password
                             THEN @ ELSE IdleReq]
    /\ UNCHANGED <<now, users, nextId, issued, served, changes, loggedOut,
                   page>>

PolicyNext ==
    \/ \E u \in GenFirstLast(UpperSeq), l \in GenFirstLast(LowerSeq),
          n \in GenFirstLast(DigitSeq), s \in Range(SpecialSeq),
          chars \in GenRests, perm \in GenShuffles :
          GeneratePassword(u, l, n, s, chars, perm)
    \/ \E password \in PolicyPasswords : ValidatePassword(password)
    \/ /\ reqs["r1"].op = "generatePassword"
       /\ ValidatePassword(reqs["r1"].generatedPassword)
    \/ \E password \in PolicyPasswords :
          ChangePasswordValidatePassword(password)

SpecPolicy == Init /\ [][PolicyNext]_vars

(***************************************************************************)
(* The single-page application (frontend): App.tsx with its routes,        *)
(* ProtectedRoute, AuthProvider, the API client with its interceptors, the *)
(* Login page and the Dashboard.  The server answers from the seeded       *)
(* collection; a request may also fail on the network.  React renders      *)
(* after every state change: each action ends with the render, which       *)
(* follows the <Navigate> elements until a page is displayed.              *)
(***************************************************************************)
\* what a route renders: a page, or <Navigate to=... replace />
Element(content) == [navigate |-> FALSE, to |-> "", content |-> content]
Navigate(to) == [navigate |-> TRUE, to |-> to, content |-> ""]

\* a guard that lets a restricted user see every protected route
ProtectedRoute_Unrestricted(children, user, loading, pathname) ==
    IF loading THEN Element("Loading...")
    ELSE IF user = NoUser THEN Navigate("/login")
    ELSE Element(children)

\* ProtectedRoute: what it returns for the user and the loading flag of
\* useAuth() and the pathname of useLocation()
ProtectedRoute(children, user, loading, pathname) ==
    IF loading THEN Element("Loading...")
    ELSE IF user = NoUser THEN Navigate("/login")
    ELSE IF user.mustChangePassword /\ pathname # "/change-password"
    THEN Navigate("/change-password")
    ELSE Element(children)

\* the <Routes> of App
Routes(pathname, user, loading) ==
    CASE pathname = "/login" -> Element("Login")
      [] pathname = "/change-password" ->
            ProtectedRoute("ChangePassword", user, loading, pathname)
      [] pathname = "/dashboard" ->
            ProtectedRoute("Dashboard", user, loading, pathname)
      [] pathname = "/settings/users" ->
            ProtectedRoute("Users", user, loading, pathname)
      [] OTHER -> Navigate("/dashboard")

\* the paths of the protected routes, and the paths a user may ask for
ProtectedPaths == {"/change-password", "/dashboard", "/settings/users"}
Paths == ProtectedPaths \cup {"/login", "/reports"}

\* the render: the location after the redirects and the page displayed; a
\* page that is replaced by another, or by a redirect, loses its own state
RECURSIVE render(_)
render(a) ==
    LET element == Routes(a.pathname, a.user, a.loading)
    IN  IF element.navigate
        THEN render([a EXCEPT !.pathname = element.to, !.screen = ""])
        ELSE IF element.content = a.screen
        THEN a
        ELSE [a EXCEPT !.screen = element.content, !.validationError = "",
                       !.pageError = "", !.success = FALSE]

\* navigate(to) of useNavigate, or a link
navigate(a, to) ==
    render([a EXCEPT !.pathname = to, !.requested = to, !.navigated = to])

\* the application loads at a path: AuthProvider mounts with user null and
\* loading true, initAuth runs up to the await of api.getCurrentUser, or
\* to its end if localStorage holds no token
mount(token, path) ==
    LET a == [NoApp EXCEPT !.mounted = TRUE, !.token = token,
                           !.pathname = path, !.requested = path]
    IN  IF token # NoToken
        THEN render([a EXCEPT !.pc = "initAuth"])
        ELSE render([a EXCEPT !.loading = FALSE])

\* the response interceptor on a 401: clearToken, and the browser loads
\* /login unless it is there already
Intercept401(a) ==
    IF a.pathname # "/login"
    THEN mount(NoToken, "/login")
    ELSE [a EXCEPT !.token = NoToken]

\* the outcomes of a request: the server answers, or the request fails on
\* the network
Outcomes == {"answer", "network"}

\* the state an action starts from: the navigation and the console message
\* of the action before are no longer the last ones
current == [app EXCEPT !.navigated = "", !.console = ""]

\* the browser opens or reloads the application at a path
Load(path) ==
    /\ app' = mount(app.token, path)
    /\ UNCHANGED <<server, page>>

\* a link, the back button: the router goes to a path
Visit(path) ==
    /\ app.mounted /\ app.pc = "idle"
    /\ app' = navigate(current, path)
    /\ UNCHANGED <<server, page>>

\* a catch block of initAuth that leaves the token in localStorage
initAuthCatch_KeepToken(a) ==
    render([a EXCEPT !.console = "Failed to fetch user:", !.loading = FALSE,
                     !.pc = "idle"])

\* the catch block of initAuth and the setLoading(false) after it
initAuthCatch(a) ==
    render([a EXCEPT !.console = "Failed to fetch user:",
                     !.token = NoToken, !.loading = FALSE, !.pc = "idle"])

\* initAuth from the response of api.getCurrentUser on: GET /api/auth/me
\* answers the user of the token, or 401 if the token does not verify or
\* the user is gone
initAuthResponse(outcome) ==
    LET auth == authenticate(Bearer(app.token), now)
        doc == findById(users, auth.user.userId)
    IN  /\ app.pc = "initAuth"
        /\ app' =
              IF outcome = "network"
              THEN initAuthCatch(current)
              ELSE IF auth.next /\ doc # NoDoc
              THEN render([current EXCEPT !.user = UserSafe(doc),
                                      !.loading = FALSE, !.pc = "idle"])
              ELSE IF app.pathname # "/login"
              THEN Intercept401(current)
              ELSE initAuthCatch(Intercept401(current))
        /\ UNCHANGED <<server, page>>

\* Login.handleSubmit up to the await of api.login inside login()
LoginSubmit(email, password) ==
    /\ app.screen = "Login" /\ app.pc = "idle"
    /\ app' =
          IF email = Missing \/ password = Missing
          THEN [current EXCEPT !.error = "", !.validationError =
                              "Email and password are required"]
          ELSE IF "@" \notin Range(email)
          THEN [current EXCEPT !.error = "", !.validationError =
                              "Please enter a valid email address"]
          ELSE render([current EXCEPT !.error = "", !.validationError = "",
                                  !.loading = TRUE, !.pc = "login",
                                  !.email = email, !.password = password])
    /\ UNCHANGED <<server, page>>

\* login() from the response on, then the rest of Login.handleSubmit:
\* login() does not rethrow, so navigate('/dashboard') follows either way
LoginResponse(outcome) ==
    LET doc == findOne(users, loginFilter(app.email))
        ok == doc # NoDoc /\ comparePassword(app.password, doc.password)
        done == [current EXCEPT !.loading = FALSE, !.pc = "idle",
                            !.email = <<>>, !.password = <<>>]
    IN  /\ app.pc = "login"
        /\ app' =
              IF outcome = "network"
              THEN navigate([done EXCEPT !.error = "Network Error"],
                            "/dashboard")
              ELSE IF ok
              THEN navigate([done EXCEPT
                               !.token = generateToken(doc._id, doc.email, now),
                               !.user = UserSafe(doc)],
                            "/dashboard")
              ELSE IF app.pathname # "/login"
              THEN Intercept401(current)
              ELSE navigate([Intercept401(done) EXCEPT
                               !.error = "Invalid email or password"],
                            "/dashboard")
        /\ UNCHANGED <<server, page>>

\* Dashboard.handleLogout up to the await of api.logout inside logout()
Logout ==
    /\ app.screen = "Dashboard" /\ app.pc = "idle"
    /\ app' = render([current EXCEPT !.loading = TRUE, !.pc = "logout"])
    /\ UNCHANGED <<server, page>>

\* a finally block of logout() that leaves the token in localStorage
logoutFinally_KeepToken(a) ==
    [a EXCEPT !.user = NoUser, !.loading = FALSE, !.pc = "idle"]

\* the finally block of logout(): setUser(null), clearToken(),
\* setLoading(false), whatever the request has done
logoutFinally(a) ==
    [a EXCEPT !.user = NoUser, !.token = NoToken, !.loading = FALSE,
              !.pc = "idle"]

\* logout() from the response on, then navigate('/login') of handleLogout
LogoutResponse(outcome) ==
    LET auth == authenticate(Bearer(app.token), now)
        done == logoutFinally(current)
    IN  /\ app.pc = "logout"
        /\ app' =
              IF outcome = "network"
              THEN navigate([done EXCEPT !.console = "Logout error:"],
                            "/login")
              ELSE IF auth.next
              THEN navigate(done, "/login")
              ELSE Intercept401(current)
        /\ UNCHANGED <<server, page>>

\* the checks of ChangePassword.handleSubmit before the request: the
\* message it shows, "" if it goes on
ChangePasswordCheck(currentPassword, newPassword, confirmPassword) ==
    IF currentPassword = Missing \/ newPassword = Missing
       \/ confirmPassword = Missing
    THEN "All fields are required"
    ELSE IF ChangePasswordValidate(newPassword) # ""
    THEN ChangePasswordValidate(newPassword)
    ELSE IF newPassword # confirmPassword
    THEN "New passwords do not match"
    ELSE IF newPassword = currentPassword
    THEN "New password must be different from current password"
    ELSE ""

\* ChangePassword.handleSubmit up to the await of api.changePassword
ChangePasswordSubmit(r, currentPassword, newPassword, confirmPassword, outcome) ==
    LET cleared == [current EXCEPT !.error = "", !.pageError = "",
                                   !.validationError = ""]
        message == ChangePasswordCheck(currentPassword, newPassword,
                                       confirmPassword)
        \* the request interceptor: 'Bearer <token>' if a token is stored
        header == IF app.token = NoToken THEN NoHeader
                  ELSE Bearer(app.token)
    IN  /\ app.screen = "ChangePassword" /\ app.pc = "idle" /\ ~app.success
        /\ UNCHANGED page
        /\ IF message # ""
           THEN /\ app' = [cleared EXCEPT !.validationError = message]
                /\ UNCHANGED server
           ELSE IF outcome = "network"
           THEN /\ app' = [cleared EXCEPT !.pageError = "Network Error"]
                /\ UNCHANGED server
           ELSE /\ changePassword(r, header, currentPassword, newPassword)
                /\ app' = [cleared EXCEPT !.pc = "changePassword",
                                          !.slot = r,
                                          !.password = currentPassword,
                                          !.newPassword = newPassword]

\* ChangePassword.handleSubmit from the response of api.changePassword up
\* to the call of refreshUser
ChangePasswordResponse(r) ==
    LET resp == reqs[r].resp
        done == [current EXCEPT !.slot = "none", !.password = <<>>,
                                !.newPassword = <<>>]
    IN  /\ app.pc = "changePassword" /\ r = app.slot
        /\ Receive(r)
        /\ UNCHANGED page
        /\ app' = IF resp.status = 401
                  THEN Intercept401(done)
                  ELSE IF resp.success
                  THEN [done EXCEPT !.success = TRUE, !.pc = "refresh"]
                  ELSE [done EXCEPT !.pageError = resp.error, !.pc = "idle"]

\* refreshUser up to the await of api.getCurrentUser; a request that fails
\* on the network is caught and handleSubmit sets its timer
refreshUser(r, outcome) ==
    /\ app.pc = "refresh"
    /\ UNCHANGED page
    /\ IF outcome = "network"
       THEN /\ app' = [current EXCEPT !.pc = "redirect",
                                       !.console = "Failed to refresh user:"]
            /\ UNCHANGED server
       ELSE /\ getCurrentUser(r, IF app.token = NoToken THEN NoHeader
                                  ELSE Bearer(app.token))
            /\ app' = [current EXCEPT !.pc = "refreshing", !.slot = r]

\* refreshUser from the response on, and handleSubmit up to its setTimeout
refreshUserResponse(r) ==
    LET resp == reqs[r].resp
        done == [current EXCEPT !.slot = "none", !.pc = "redirect"]
    IN  /\ app.pc = "refreshing" /\ r = app.slot
        /\ Receive(r)
        /\ UNCHANGED page
        /\ app' = IF resp.status = 401
                  THEN Intercept401(done)
                  ELSE IF resp.success
                  THEN render([done EXCEPT !.user = resp.user])
                  ELSE done

\* the timer of handleSubmit: navigate('/dashboard') two seconds later
RedirectTimer ==
    /\ app.pc = "redirect"
    /\ app' = navigate([current EXCEPT !.pc = "idle"], "/dashboard")
    /\ UNCHANGED <<server, page>>

\* what is typed into the ChangePassword page: current, new, confirmation
PasswordForms ==
    {<<SeedGeneratedPassword, NewPassword, NewPassword>>,
     <<AdminPassword, NewPassword, NewPassword>>,
     <<WeakPassword, NewPassword, NewPassword>>,
     <<SeedGeneratedPassword, WeakPassword, WeakPassword>>,
     <<SeedGeneratedPassword, NewPassword, AdminPassword>>,
     <<SeedGeneratedPassword, SeedGeneratedPassword, SeedGeneratedPassword>>,
     <<Missing, NewPassword, NewPassword>>}

\* the browser has not opened the application yet; localStorage holds no
\* token, a string that is no token, or a token the server has issued
AppInit ==
    /\ Seeded /\ page = NoPage
    /\ app \in {[NoApp EXCEPT !.token = token] :
                    token \in {NoToken, MalformedToken} \cup issued}

\* the credentials typed into the Login page
Credentials ==
    {<<AdminEmail, AdminPassword>>, <<JaneEmail, SeedGeneratedPassword>>,
     <<JaneEmail, NewPassword>>,
     <<AdminEmail, WeakPassword>>, <<Missing, AdminPassword>>,
     <<<<"a","d","m","i","n">>, AdminPassword>>}

AppNext ==
    \/ \E path \in Paths : Load(path)
    \/ \E path \in Paths : Visit(path)
    \/ \E outcome \in Outcomes : initAuthResponse(outcome)
    \/ \E c \in Credentials : LoginSubmit(c[1], c[2])
    \/ \E outcome \in Outcomes : LoginResponse(outcome)
    \/ Logout
    \/ \E outcome \in Outcomes : LogoutResponse(outcome)
    \/ \E r \in Slots, form \in PasswordForms, outcome \in Outcomes :
          ChangePasswordSubmit(r, form[1], form[2], form[3], outcome)
    \/ \E r \in Slots :
          changePasswordSave(r, 1) /\ UNCHANGED <<page, app>>
    \/ \E r \in Slots : ChangePasswordResponse(r)
    \/ \E r \in Slots, outcome \in Outcomes : refreshUser(r, outcome)
    \/ \E r \in Slots : refreshUserResponse(r)
    \/ RedirectTimer
    \/ \E r \in Slots \ {app.slot} : Receive(r) /\ UNCHANGED <<page, app>>

SpecApp == AppInit /\ [][AppNext]_vars

\* the request of initAuth ends: the server answers, or axios gives up after
\* its timeout of ten seconds
SpecAppLive ==
    SpecApp /\ WF_vars(\E outcome \in Outcomes : initAuthResponse(outcome))

(***************************************************************************)
(* Properties.                                                             *)
(***************************************************************************)
Done(r, op) == reqs[r].op = op /\ reqs[r].pc = "done"

Live(id) == id \in DOMAIN users

\* the protected operations besides change-password and identity lookup
OtherProtected ==
    {"logout", "getUsers", "createUser", "getUserById", "updateUser",
     "deleteUser"}

\* C1: a request that carries the valid token of an account whose
\* mustChangePassword is true is refused by every protected operation other
\* than changePassword and getCurrentUser
C1_RestrictedRefused ==
    \A r \in Slots :
        ( /\ reqs[r].pc = "done" /\ reqs[r].op \in OtherProtected
          /\ Live(reqs[r].user.userId)
          /\ users[reqs[r].user.userId].mustChangePassword )
        => reqs[r].resp.status \notin {200, 201}

\* C2: the new hash and the cleared flag reach the store in one write: no
\* step replaces an account's hash and leaves it restricted, and no step
\* clears the flag of an account and leaves it with the hash it had
C2_AtomicRotation ==
    [][\A id \in DOMAIN users \cap DOMAIN users' :
          /\ users'[id].password # users[id].password
                => ~users'[id].mustChangePassword
          /\ (users[id].mustChangePassword /\ ~users'[id].mustChangePassword)
                => users'[id].password # users[id].password]_vars

C2_Witness ==
    \E r \in Slots :
        /\ Done(r, "changePassword") /\ reqs[r].resp.status = 200
        /\ reqs[r].doc.mustChangePassword
        /\ Live(reqs[r].doc._id)
        /\ ~users[reqs[r].doc._id].mustChangePassword
        /\ users[reqs[r].doc._id].password = reqs[r].hashedPassword

\* C3: once an account has changed its password, every successful login
\* that looks the account up afterwards returns mustChangePassword = false
C3_LoginAfterChange ==
    \A r \in Slots :
        (Done(r, "login") /\ reqs[r].resp.status = 200
            /\ reqs[r].seen.changed)
        => ~reqs[r].resp.user.mustChangePassword

C3_Witness ==
    \E r \in Slots :
        /\ Done(r, "login") /\ reqs[r].resp.status = 200
        /\ reqs[r].seen.changed /\ reqs[r].seen.restricted
        /\ ~reqs[r].resp.user.mustChangePassword

\* C4: after a change from password P to password Q, and until the next
\* change, a login that looks the account up with P is answered 401, and
\* one with Q is answered 200 (the account being there when login saves)
C4_OldRejectedNewAccepted ==
    \A r \in Slots :
        (Done(r, "login") /\ reqs[r].seen.changed)
        => /\ reqs[r].password = reqs[r].seen.old
                => reqs[r].resp.status = 401
           /\ reqs[r].password = reqs[r].seen.new
                => \/ reqs[r].resp.status = 200
                   \/ reqs[r].resp = errorHandler(DocumentNotFoundError)

C4_Witness ==
    \E r \in Slots :
        /\ Done(r, "login") /\ reqs[r].seen.changed
        /\ reqs[r].password = reqs[r].seen.old
        /\ reqs[r].seen.old # reqs[r].seen.new
        /\ reqs[r].resp.status = 401

\* C5: only the save of a successful changePassword of the account itself
\* takes mustChangePassword from true to false, and no step takes the flag
\* of an existing account from false to true
C5_FlagTransitions ==
    [][\A id \in DOMAIN users \cap DOMAIN users' :
          /\ (users[id].mustChangePassword /\ ~users'[id].mustChangePassword)
                => \E r \in Slots :
                      /\ reqs[r].op = "changePassword" /\ reqs[r].pc = "save"
                      /\ reqs[r].user.userId = id
                      /\ reqs'[r].pc = "done" /\ reqs'[r].resp.status = 200
          /\ ~users[id].mustChangePassword
                => ~users'[id].mustChangePassword]_vars

C5_Witness ==
    \E id \in DOMAIN users :
        /\ changes[id].changed /\ changes[id].restricted
        /\ ~users[id].mustChangePassword
        /\ \E r \in Slots : reqs[r].op = "login" /\ reqs[r].pc = "save"
                            /\ reqs[r].doc._id = id
                            /\ reqs[r].doc.mustChangePassword

\* the response of login to credentials it does not accept
GenericLoginFailure ==
    [NoResp EXCEPT !.status = 401, !.error = "Invalid email or password"]

\* C6: a login with an email of no account and a login with the email of
\* an account and a wrong password get the same response, 401 with the
\* message 'Invalid email or password'
C6_GenericLoginFailure ==
    \A r \in Slots :
        ( /\ Done(r, "login")
          /\ reqs[r].email # Missing /\ reqs[r].password # Missing
          /\ \/ reqs[r].doc = NoDoc
             \/ ~comparePassword(reqs[r].password, reqs[r].doc.password) )
        => reqs[r].resp = GenericLoginFailure

C6_Witness ==
    \E r \in Slots :
        /\ Done(r, "login") /\ reqs[r].doc = NoDoc
        /\ reqs[r].email # Missing /\ reqs[r].password # Missing
        /\ reqs[r].resp.status = 401

\* C7: a login with the password of an existing account goes on to the
\* save; the save of a login whose account is there answers 200 with a
\* token for the id and email of the account and the flag as login read
\* it, sets lastLogin, and leaves the hash and the flag as they are
C7_LoginSuccess ==
    [][\A r \in Slots :
          /\ ( /\ reqs[r].pc = "idle" /\ reqs'[r].op = "login"
               /\ reqs'[r].email # Missing
               /\ \E id \in DOMAIN users :
                     /\ users[id].email = toLowerCase(reqs'[r].email)
                     /\ users[id].password.plain = reqs'[r].password )
               => reqs'[r].pc = "save"
          /\ ( /\ reqs[r].op = "login" /\ reqs[r].pc = "save"
               /\ reqs'[r].pc = "done" /\ Live(reqs[r].doc._id) )
               => LET id == reqs[r].doc._id
                      resp == reqs'[r].resp
                  IN  /\ resp.status = 200
                      /\ resp.token \in issued'
                      /\ resp.token.payload.userId = id
                      /\ resp.token.payload.email = reqs[r].doc.email
                      /\ resp.user.mustChangePassword
                            = reqs[r].doc.mustChangePassword
                      /\ resp.user.lastLogin # NullDate
                      /\ users'[id].lastLogin # NullDate
                      /\ users'[id].password = users[id].password
                      /\ users'[id].mustChangePassword
                            = users[id].mustChangePassword]_vars

C7_Witness ==
    \E r \in Slots :
        /\ Done(r, "login") /\ reqs[r].resp.status = 200
        /\ reqs[r].resp.user.mustChangePassword
        /\ reqs[r].resp.token.payload.userId = reqs[r].doc._id
        /\ Live(reqs[r].doc._id)
        /\ users[reqs[r].doc._id].lastLogin # NullDate

\* C8 as claimed: getCurrentUser with a token that verifies and whose record
\* is gone is answered 401, like a bad token
C8_DeletedIsUnauthorized ==
    \A r \in Slots :
        (Done(r, "getCurrentUser") /\ reqs[r].user.userId # 0
            /\ reqs[r].doc = NoDoc)
        => reqs[r].resp.status = 401

\* C8: getCurrentUser with a token that verifies and whose record is gone is
\* answered 404 'User not found', which differs from the 401 of a bad token
C8_DeletedIsNotFound ==
    \A r \in Slots :
        (Done(r, "getCurrentUser") /\ reqs[r].user.userId # 0
            /\ reqs[r].doc = NoDoc)
        => /\ reqs[r].resp.status = 404
           /\ reqs[r].resp.error = "User not found"

C8_Witness ==
    \E r \in Slots :
        /\ Done(r, "getCurrentUser") /\ reqs[r].doc = NoDoc
        /\ reqs[r].header.token \in issued
        /\ now < reqs[r].header.token.payload.exp
        /\ ~Live(reqs[r].user.userId)

\* C9: no two records of the store have emails that are equal in lower
\* case, and a createUser whose email is, in any casing, the email of a
\* record is answered 409
C9_UniqueEmails ==
    /\ \A a, b \in DOMAIN users :
          toLowerCase(users[a].email) = toLowerCase(users[b].email) => a = b
    /\ \A r \in Slots :
          ( /\ Done(r, "createUser") /\ reqs[r].user.userId # 0
            /\ reqs[r].name # "" /\ reqs[r].email # Missing
            /\ \E id \in DOMAIN users :
                  /\ users[id].email = toLowerCase(reqs[r].email)
                  /\ id # reqs[r].resp.user._id )
          => reqs[r].resp.status = 409

C9_Witness ==
    \E r \in Slots, id \in DOMAIN users :
        /\ Done(r, "createUser") /\ reqs[r].resp.status = 409
        /\ users[id].email = toLowerCase(reqs[r].email)
        /\ users[id].email # reqs[r].email

\* C10: a createUser that has passed its check for the email and then
\* finds a record with that email in the store creates nothing and is
\* answered 409: of two such requests for one email one creates the record
C10_DuplicateCreateRace ==
    [][\A r \in Slots :
          ( /\ reqs[r].op = "createUser" /\ reqs[r].pc = "create"
            /\ reqs'[r].pc = "done"
            /\ \E id \in DOMAIN users :
                  users[id].email = toLowerCase(reqs[r].email) )
          => /\ reqs'[r].resp.status = 409
             /\ users' = users]_vars

C10_Witness ==
    \E r \in Slots, id \in DOMAIN users :
        /\ Done(r, "createUser") /\ reqs[r].resp.status = 409
        /\ reqs[r].hashedPassword # NoHash
        /\ id \notin DOMAIN SeedUsers
        /\ users[id].email = toLowerCase(reqs[r].email)

\* C11: the lookup of login ignores case: a login with a case variant of
\* the email of an account and the password of that account finds that
\* account and goes on to the save, whose answer, the account being there,
\* is 200 for that account; createUser stores the email in lower case
C11_CaseInsensitiveLogin ==
    [][\A r \in Slots :
          /\ ( /\ reqs[r].pc = "idle" /\ reqs'[r].op = "login"
               /\ reqs'[r].email # Missing /\ reqs'[r].password # Missing )
               => \A id \in DOMAIN users :
                     ( /\ toLowerCase(users[id].email)
                             = toLowerCase(reqs'[r].email)
                       /\ comparePassword(reqs'[r].password,
                                          users[id].password) )
                     => /\ reqs'[r].pc = "save"
                        /\ reqs'[r].doc._id = id
          /\ ( /\ reqs[r].op = "login" /\ reqs[r].pc = "save"
               /\ reqs'[r].pc = "done" /\ Live(reqs[r].doc._id) )
               => /\ reqs'[r].resp.status = 200
                  /\ reqs'[r].resp.user._id = reqs[r].doc._id
                  /\ toLowerCase(reqs[r].email) = reqs'[r].resp.user.email
          /\ ( /\ reqs[r].op = "createUser" /\ reqs[r].pc = "create"
               /\ reqs'[r].pc = "done" /\ reqs'[r].resp.status = 201 )
               => users'[reqs'[r].resp.user._id].email
                     = toLowerCase(reqs[r].email)]_vars

C11_Witness ==
    \E r \in Slots :
        /\ Done(r, "login") /\ reqs[r].resp.status = 200
        /\ Live(reqs[r].doc._id)
        /\ reqs[r].email # users[reqs[r].doc._id].email
        /\ toLowerCase(reqs[r].email) = users[reqs[r].doc._id].email
        /\ reqs[r].resp.user._id = reqs[r].doc._id

\* C12: a deleteUser whose :id denotes the record of the identity of the
\* token is answered 400 (and so removes nothing)
C12_SelfDeleteRejected ==
    \A r \in Slots :
        ( /\ Done(r, "deleteUser") /\ reqs[r].user.userId # 0
          /\ castObjectId(reqs[r].param) = reqs[r].user.userId )
        => reqs[r].resp.status = 400

\* a user object of a response that carries a password
HasPassword(user) == "password" \in DOMAIN user

\* C13: no response of any operation contains a user object with the
\* password hash in it, neither as its user nor in its list of users
C13_NoHashInResponses ==
    \A r \in Slots :
        reqs[r].pc = "done"
        => /\ ~HasPassword(reqs[r].resp.user)
           /\ \A user \in reqs[r].resp.users : ~HasPassword(user)

C13_Witness ==
    \E r \in Slots :
        /\ Done(r, "getUsers") /\ reqs[r].resp.status = 200
        /\ \E user \in reqs[r].resp.users :
              /\ Live(user._id)
              /\ users[user._id].password # NoHash
              /\ user.email = users[user._id].email
              /\ ~HasPassword(user)

\* C14: a createUser answered 201 adds exactly one record and changes no
\* other; the record has mustChangePassword = true and the hash of the
\* generatedPassword of the response; a login with the email of such a
\* record, its password not changed since, and that password goes on to
\* the save and reports mustChangePassword = true
C14_CreateStoresGenerated ==
    [][\A r \in Slots :
          /\ ( /\ reqs[r].op = "createUser" /\ reqs[r].pc = "create"
               /\ reqs'[r].pc = "done" /\ reqs'[r].resp.status = 201 )
               => LET id == reqs'[r].resp.user._id
                      generatedPassword == reqs'[r].resp.generatedPassword
                  IN  /\ id \notin DOMAIN users
                      /\ DOMAIN users' = DOMAIN users \cup {id}
                      /\ \A other \in DOMAIN users :
                            users'[other] = users[other]
                      /\ users'[id].mustChangePassword
                      /\ users'[id].password.plain # <<>>
                      /\ generatedPassword \in GeneratedPasswords
                      /\ comparePassword(generatedPassword,
                                         users'[id].password)
                      /\ reqs'[r].resp.user.mustChangePassword
          /\ ( /\ reqs[r].pc = "idle" /\ reqs'[r].op = "login"
               /\ reqs'[r].password \in GeneratedPasswords )
               => \A id \in DOMAIN users \ DOMAIN SeedUsers :
                     ( /\ users[id].email = toLowerCase(reqs'[r].email)
                       /\ ~changes[id].changed )
                     => /\ reqs'[r].pc = "save"
                        /\ reqs'[r].doc._id = id
                        /\ reqs'[r].doc.mustChangePassword]_vars

C14_Witness ==
    \E r \in Slots :
        /\ Done(r, "login") /\ reqs[r].resp.status = 200
        /\ reqs[r].password \in GeneratedPasswords
        /\ reqs[r].doc._id \notin DOMAIN SeedUsers
        /\ reqs[r].resp.user.mustChangePassword
        /\ reqs[r].resp.user.email = toLowerCase(NewUserEmail)

C16_CheckOrder ==
    \A r \in Slots :
        (Done(r, "changePassword") /\ reqs[r].user.userId # 0)
        => LET req == reqs[r]
               resp == reqs[r].resp
           IN  IF req.password = Missing \/ req.newPassword = Missing
               THEN /\ resp.status = 400
                    /\ resp.error
                         = "Current password and new password are required"
               ELSE IF validatePassword(req.newPassword) # <<>>
               THEN /\ resp.status = 400
                    /\ resp.error = "Password does not meet requirements"
                    /\ resp.errors = validatePassword(req.newPassword)
               ELSE IF req.doc = NoDoc
               THEN resp.status = 404
               ELSE IF ~comparePassword(req.password, req.doc.password)
               THEN /\ resp.status = 401
                    /\ resp.error = "Current password is incorrect"
               ELSE IF req.newPassword = req.password
               THEN /\ resp.status = 400
                    /\ resp.error
                         = "New password must be different from current password"
               ELSE resp.status \in {200, 500}

C16_Witness ==
    \E r \in Slots :
        /\ Done(r, "changePassword") /\ reqs[r].user.userId # 0
        /\ Live(reqs[r].user.userId)
        /\ ~comparePassword(reqs[r].password,
                            users[reqs[r].user.userId].password)
        /\ Len(validatePassword(reqs[r].newPassword)) > 1
        /\ reqs[r].resp.status = 400
        /\ reqs[r].resp.errors = validatePassword(reqs[r].newPassword)

\* the operations behind the authenticate middleware
Protected ==
    {"logout", "getCurrentUser", "changePassword", "getUsers", "createUser",
     "getUserById", "updateUser", "deleteUser"}

\* a header 'Bearer <token>' with a token the server has issued which has
\* not expired at instant t
Verifies(header, t) ==
    /\ header.present /\ header.scheme = "Bearer"
    /\ header.token \in issued
    /\ t < header.token.payload.exp

\* C17: a request to a protected operation reaches the handler only with
\* a 'Bearer <token>' whose token verifies, and then the claims of the
\* token are the user of the request; any other request is answered 401
\* by the middleware, no handler step follows and the store is unchanged
C17_AccessGate ==
    [][\A r \in Slots :
          (reqs[r].pc = "idle" /\ reqs'[r].op \in Protected)
          => IF Verifies(reqs'[r].header, now)
             THEN /\ reqs'[r].user = reqs'[r].header.token.payload
                  /\ reqs'[r].user.userId # 0
             ELSE /\ reqs'[r].pc = "done"
                  /\ reqs'[r].resp.status = 401
                  /\ ~reqs'[r].resp.success
                  /\ reqs'[r].user = NoClaims
                  /\ reqs'[r].doc = NoDoc
                  /\ users' = users /\ nextId' = nextId
                  /\ issued' = issued]_vars

C17_Witness ==
    \E r \in Slots :
        /\ reqs[r].pc = "done" /\ reqs[r].op \in Protected
        /\ reqs[r].header.present /\ reqs[r].header.scheme = "Bearer"
        /\ reqs[r].header.token \in issued
        /\ now >= reqs[r].header.token.payload.exp
        /\ reqs[r].resp.status = 401
        /\ reqs[r].user = NoClaims

\* a request the authenticate middleware has answered
Rejected(r) ==
    /\ reqs[r].pc = "done" /\ reqs[r].op \in Protected
    /\ reqs[r].user = NoClaims

MsgNoToken == "Authentication required. Please provide a valid token."

\* C18 as claimed: the middleware answers every request it rejects with the
\* same body, whatever the reason
C18_RejectionGeneric ==
    \A r \in Slots :
        Rejected(r)
        => reqs[r].resp = [NoResp EXCEPT !.status = 401, !.error = MsgNoToken]

\* C18: every rejection of the middleware is a 401 with success false; its
\* error is 'Authentication required. Please provide a valid token.' when
\* the header has no Bearer token and 'Invalid token' when the token fails
\* to verify, be it malformed, signed with another secret or expired
C18_RejectionByReason ==
    \A r \in Slots :
        Rejected(r)
        => LET header == reqs[r].header
               resp == reqs[r].resp
           IN  /\ resp.status = 401 /\ ~resp.success
               /\ resp = [NoResp EXCEPT !.status = 401, !.error = resp.error]
               /\ resp.error =
                     IF ~header.present \/ header.scheme # "Bearer"
                     THEN MsgNoToken
                     ELSE "Invalid token"

C18_Witness ==
    \E r \in Slots :
        /\ Rejected(r)
        /\ reqs[r].header.scheme = "Bearer"
        /\ reqs[r].header.token \in issued
        /\ now >= reqs[r].header.token.payload.exp
        /\ reqs[r].resp.error = "Invalid token"

C20_LogoutInvalidates ==
    \A r \in Slots :
        ( /\ reqs[r].op \in Protected /\ reqs[r].pc # "idle"
          /\ reqs[r].header.token \in loggedOut
          /\ \/ reqs[r].op # "logout"
             \/ reqs[r].resp.status # 200 )
        => reqs[r].pc = "done" /\ reqs[r].resp.status = 401

\* C21: a token generated for an id and an email at an instant expires
\* JWT_EXPIRATION later; verifyToken of that token returns the id and the
\* email it was generated for and that expiry, and it succeeds exactly
\* when the current instant is before the expiry
C21_TokenRoundTrip ==
    [][/\ reqs'["r1"] # reqs["r1"]
          => LET payload == reqs'["r1"].header.token.payload
             IN  /\ payload.userId = reqs'["r1"].id
                 /\ payload.email = reqs'["r1"].email
                 /\ payload.iat = now
                 /\ payload.exp = now + JWT_EXPIRATION
       /\ ( /\ reqs'["r2"] # reqs["r2"] /\ reqs'["r2"].op = "verifyToken"
            /\ reqs'["r2"].header = reqs["r1"].header )
          => /\ reqs'["r2"].resp.success
                   <=> now < reqs["r1"].header.token.payload.iat
                                + JWT_EXPIRATION
             /\ reqs'["r2"].resp.success
                   => /\ reqs'["r2"].user.userId = reqs["r1"].id
                      /\ reqs'["r2"].user.email = reqs["r1"].email
                      /\ reqs'["r2"].user.exp
                            = reqs["r1"].header.token.payload.iat
                              + JWT_EXPIRATION]_vars

C21_Witness ==
    /\ reqs["r1"].op = "generateToken" /\ reqs["r2"].op = "verifyToken"
    /\ reqs["r2"].header = reqs["r1"].header
    /\ now >= reqs["r1"].header.token.payload.exp
    /\ ~reqs["r2"].resp.success
    /\ reqs["r1"].header.token.payload.exp = JWT_EXPIRATION

\* C22: verifyToken fails with one message for a token that is no JWT or
\* that carries another signature, and with a different message for a token
\* signed with JWT_SECRET whose expiry has passed
C22_ExpiredDistinguished ==
    \A r \in Slots :
        ( /\ reqs[r].op = "verifyToken" /\ ~reqs[r].resp.success
          /\ reqs[r].header.token.sig = JWT_SECRET )
        => reqs[r].resp.error # verifyToken(MalformedToken, now).message

\* C23: validatePassword of a password generatePassword has returned is the
\* empty list, whatever the random characters and the shuffle were
C23_GeneratedIsValid ==
    ( /\ reqs["r1"].op = "generatePassword"
      /\ reqs["r2"].op = "validatePassword"
      /\ reqs["r2"].password = reqs["r1"].generatedPassword )
    => reqs["r2"].resp.errors = <<>>

C23_Witness ==
    /\ reqs["r1"].op = "generatePassword"
    /\ reqs["r2"].op = "validatePassword"
    /\ reqs["r2"].password = reqs["r1"].generatedPassword
    /\ Len(reqs["r1"].generatedPassword) = 4 + RemainingLength
    /\ reqs["r1"].generatedPassword[1] = "0"
    /\ reqs["r1"].generatedPassword[GenLength] = "Z"
    /\ "*" \in Range(reqs["r1"].generatedPassword)

\* the rules of the policy a password does not meet
HasOneOf(password, chars) == \E i \in 1..Len(password) : password[i] \in chars
UnmetRules(password) ==
    {m \in {MsgLength, MsgUpper, MsgLower, MsgDigit, MsgSpecial} :
        \/ m = MsgLength /\ Len(password) < 8
        \/ m = MsgUpper /\ ~HasOneOf(password, Range(UpperSeq))
        \/ m = MsgLower /\ ~HasOneOf(password, Range(LowerSeq))
        \/ m = MsgDigit /\ ~HasOneOf(password, Range(DigitSeq))
        \/ m = MsgSpecial /\ ~HasOneOf(password, SpecialClass)}

\* C26: validatePassword returns one violation for each of the five rules
\* the password does not meet, all of them at once, and the empty list
\* exactly when the password meets all five
C26_OneViolationPerRule ==
    reqs["r2"].op = "validatePassword"
    => LET errors == reqs["r2"].resp.errors
           unmet == UnmetRules(reqs["r2"].password)
       IN  /\ Range(errors) = unmet
           /\ Len(errors) = Cardinality(unmet)
           /\ errors = <<>> <=> unmet = {}

C26_Witness ==
    /\ reqs["r2"].op = "validatePassword"
    /\ Len(reqs["r2"].password) >= 8
    /\ reqs["r2"].resp.errors = <<MsgUpper, MsgDigit>>

\* C25: optionalAuthenticate calls next() exactly once for every request and
\* sends no response; the request carries a user afterwards exactly when
\* its Authorization header is 'Bearer <token>' with a token signed with
\* JWT_SECRET that has not expired, and the user is the payload of the token
C25_OptionalAuthPasses ==
    [][( /\ reqs'["r2"] # reqs["r2"]
         /\ reqs'["r2"].op = "optionalAuthenticate" )
       => LET header == reqs'["r2"].header
              verifies == /\ header.present /\ header.scheme = "Bearer"
                          /\ header.token.sig = JWT_SECRET
                          /\ now < header.token.payload.exp
          IN  /\ reqs'["r2"].next = 1
              /\ reqs'["r2"].resp = NoResp
              /\ reqs'["r2"].user # NoClaims <=> verifies
              /\ verifies => reqs'["r2"].user = header.token.payload]_vars

\* a request with an expired token has passed without a user
C25_Witness ==
    /\ reqs["r2"].op = "optionalAuthenticate"
    /\ reqs["r2"].header = reqs["r1"].header
    /\ reqs["r2"].header.token.payload.exp <= now
    /\ reqs["r2"].next = 1 /\ reqs["r2"].user = NoClaims

\* the pages of the protected routes
ProtectedPages == {"ChangePassword", "Dashboard", "Users"}

ChangeSaved(r) ==
    /\ reqs[r].op = "changePassword" /\ reqs[r].pc = "save"
    /\ reqs'[r].pc = "done" /\ reqs'[r].resp.status = 200

\* C27: when a changePassword request saves after another change of the
\* same account's password that it has not read (both had read the record
\* before either wrote), it succeeds as well; the record then holds the
\* hash of this request's new password, mustChangePassword is false, and
\* nothing else of the record has changed: the last write wins whole
C27_LastWriteWins ==
    [][\A r \in Slots :
          ( /\ reqs[r].op = "changePassword" /\ reqs[r].pc = "save"
            /\ reqs'[r].pc = "done"
            /\ reqs[r].doc._id \in DOMAIN users
            /\ users[reqs[r].doc._id].password # reqs[r].doc.password )
          => LET id == reqs[r].doc._id
             IN  /\ ChangeSaved(r)
                 /\ users'[id].password.plain = reqs[r].newPassword
                 /\ users'[id].password = reqs'[r].hashedPassword
                 /\ users'[id].password # reqs[r].doc.password
                 /\ ~users'[id].mustChangePassword
                 /\ users'[id].name = users[id].name
                 /\ users'[id].email = users[id].email
                 /\ users'[id].lastLogin = users[id].lastLogin]_vars

\* two changes of one account have both succeeded, the second with another
\* new password than the first, and the record holds the second one
C27_Witness ==
    \E r \in Slots :
        /\ Done(r, "changePassword") /\ reqs[r].resp.status = 200
        /\ changes[reqs[r].doc._id].raced
        /\ reqs[r].doc.mustChangePassword
        /\ users[reqs[r].doc._id].password = reqs[r].hashedPassword
        /\ reqs[r].newPassword = AdminPassword

\* the requests C28 is about
Counted == {"login", "changePassword", "createUser"}

\* C28 as stated: a login, changePassword or createUser request makes at
\* most one read of the store, at most one computation of bcrypt (hash or
\* compare) and at most one write of the store
C28_OneOfEach ==
    \A r \in Slots :
        reqs[r].op \in Counted
        => /\ reqs[r].calls.reads <= 1
           /\ reqs[r].calls.hashes <= 1
           /\ reqs[r].calls.writes <= 1

\* C28, amended: every such request makes at most one read and at most one
\* write of the store; login makes at most one computation of bcrypt,
\* createUser at most one, changePassword at most three, and exactly three
\* (two compares and the hash) when it is answered 200
C28_CallsBounded ==
    \A r \in Slots :
        reqs[r].op \in Counted
        => /\ reqs[r].calls.reads <= 1
           /\ reqs[r].calls.writes <= 1
           /\ reqs[r].op # "changePassword" => reqs[r].calls.hashes <= 1
           /\ reqs[r].op = "changePassword" => reqs[r].calls.hashes <= 3
           /\ (Done(r, "changePassword") /\ reqs[r].resp.status = 200)
                 => reqs[r].calls = [reads |-> 1, hashes |-> 3, writes |-> 1]
           /\ (Done(r, "login") /\ reqs[r].resp.status = 200)
                 => reqs[r].calls = [reads |-> 1, hashes |-> 1, writes |-> 1]
           /\ (Done(r, "createUser") /\ reqs[r].resp.status = 201)
                 => reqs[r].calls = [reads |-> 1, hashes |-> 1, writes |-> 1]

C28_Witness ==
    \E r \in Slots :
        /\ Done(r, "changePassword") /\ reqs[r].resp.status = 200
        /\ reqs[r].calls.hashes = 3

\* C29: a changePassword request that is answered with an error (a field is
\* missing, the new password violates the policy, the current password is
\* wrong, the new password is the current one, the account is gone) leaves
\* every record of the store as it was: the hash and mustChangePassword of
\* the account are unchanged
C29_FailedChangeKeepsRecord ==
    [][\A r \in Slots :
          ( /\ reqs[r].pc # "done" /\ reqs'[r].pc = "done"
            /\ reqs'[r].op = "changePassword"
            /\ reqs'[r].resp.status # 200 )
          => /\ ~reqs'[r].resp.success
             /\ users' = users
             /\ changes' = changes]_vars

\* a restricted account has presented a wrong current password: 401, and
\* the record still holds the hash of the generated password and the flag
C29_Witness ==
    \E r \in Slots :
        /\ Done(r, "changePassword") /\ reqs[r].resp.status = 401
        /\ reqs[r].resp.error = "Current password is incorrect"
        /\ reqs[r].doc._id \in DOMAIN users
        /\ users[reqs[r].doc._id].mustChangePassword
        /\ comparePassword(SeedGeneratedPassword,
                           users[reqs[r].doc._id].password)

\* the save of a login or an updateUser that is answered in this step, on
\* a record whose password was changed after the request had read it
StaleSave(r) ==
    /\ reqs[r].op \in {"login", "updateUser"} /\ reqs[r].pc = "save"
    /\ reqs'[r].pc = "done"
    /\ reqs[r].doc._id \in DOMAIN users
    /\ users[reqs[r].doc._id].password # reqs[r].doc.password

\* C30: a login or an updateUser that has read the record before a
\* successful changePassword wrote it and saves afterwards leaves the new
\* hash and the cleared mustChangePassword in place: the save of login
\* changes nothing but lastLogin, the save of updateUser nothing but name
\* and email
C30_StaleSaveKeepsPassword ==
    [][\A r \in Slots :
          StaleSave(r)
          => LET id == reqs[r].doc._id
             IN  /\ id \in DOMAIN users'
                 /\ users'[id].password = users[id].password
                 /\ users'[id].password # reqs[r].doc.password
                 /\ users'[id].mustChangePassword
                       = users[id].mustChangePassword
                 /\ ~users'[id].mustChangePassword
                 /\ reqs[r].op = "login"
                       => [users' EXCEPT ![id].lastLogin = users[id].lastLogin]
                          = users
                 /\ reqs[r].op = "updateUser"
                       => [users' EXCEPT ![id].name = users[id].name,
                                         ![id].email = users[id].email]
                          = users]_vars

\* an updateUser has read a restricted account, the account has changed
\* its password, the updateUser has saved the new name: the record holds
\* the new name, the new hash and the cleared flag
C30_Witness ==
    \E r \in Slots :
        /\ Done(r, "updateUser") /\ reqs[r].resp.status = 200
        /\ reqs[r].doc.mustChangePassword
        /\ reqs[r].doc._id \in DOMAIN users
        /\ users[reqs[r].doc._id].name = reqs[r].name
        /\ users[reqs[r].doc._id].name # SeedUsers[reqs[r].doc._id].name
        /\ users[reqs[r].doc._id].password # reqs[r].doc.password
        /\ ~users[reqs[r].doc._id].mustChangePassword

\* the save of a login, a changePassword or an updateUser that is answered
\* in this step, on a record that was deleted after the request had read it
OrphanSave(r) ==
    /\ reqs[r].op \in {"login", "changePassword", "updateUser"}
    /\ reqs[r].pc = "save" /\ reqs'[r].pc = "done"
    /\ reqs[r].doc._id \notin DOMAIN users

\* C31: when the record of an account is deleted between the read and the
\* save of a login, changePassword or updateUser, the save does not bring
\* the record back: the store is the same after the save as before it, and
\* a save that had something to write is answered with an error
C31_DeletedStaysDeleted ==
    [][\A r \in Slots :
          OrphanSave(r)
          => /\ reqs[r].doc._id \notin DOMAIN users'
             /\ users' = users
             /\ reqs[r].op \in {"login", "changePassword"}
                   => reqs'[r].resp.status = 500 /\ ~reqs'[r].resp.success]_vars

\* a login has read a record, the record was deleted, the save of the
\* login has failed and the record is still absent
C31_Witness ==
    \E r \in Slots :
        /\ Done(r, "login") /\ reqs[r].resp.status = 500
        /\ reqs[r].doc._id # 0
        /\ reqs[r].doc._id \notin DOMAIN users

\* the statuses of a request that is turned away
FailureStatuses == {400, 401, 404, 409}

\* C32: a login, createUser, updateUser or deleteUser request that is
\* answered with 400, 401, 404 or 409 leaves every record of the store as
\* it was (no lastLogin written, no record created, no name or email
\* changed, nothing removed), and the response of a failed createUser
\* carries no generated password
C32_FailureKeepsStore ==
    [][\A r \in Slots :
          ( /\ reqs[r].pc # "done" /\ reqs'[r].pc = "done"
            /\ reqs'[r].op \in {"login", "createUser", "updateUser",
                                 "deleteUser"}
            /\ reqs'[r].resp.status \in FailureStatuses )
          => /\ users' = users
             /\ nextId' = nextId
             /\ ~reqs'[r].resp.success
             /\ reqs'[r].resp.generatedPassword = <<>>
             /\ reqs'[r].resp.user = NoUser
             /\ reqs'[r].resp.token = NoToken]_vars

\* a createUser has generated and hashed a password, its insert has met
\* the unique index: 409 without the password
C32_Witness ==
    \E r \in Slots :
        /\ Done(r, "createUser") /\ reqs[r].resp.status = 409
        /\ reqs[r].generatedPassword # <<>>
        /\ reqs[r].resp.generatedPassword = <<>>
        /\ reqs[r].resp.error = "Email already exists"

\* C33 as stated: a login attempt that fails (the credentials are rejected,
\* or the request fails on the network) issues no navigation to /dashboard;
\* the Login page stays and shows the error
C33_NoRedirectOnFailure ==
    [][( /\ app.pc = "login" /\ app'.pc = "idle" /\ app'.mounted
         /\ app'.error # "" )
       => /\ app'.navigated # "/dashboard"
          /\ app'.pathname = "/login" /\ app'.screen = "Login"]_vars

\* C34 as stated: when the change-password request of the page is answered
\* 401 because the current password is wrong, the client keeps its token
\* and its identity, stays on /change-password and shows the error there
C34_WrongCurrentKeepsSession ==
    [][\A r \in Slots :
          ( /\ app.pc = "changePassword" /\ app.slot = r
            /\ reqs[r].pc = "done" /\ reqs'[r].pc # "done"
            /\ reqs[r].resp.status = 401
            /\ reqs[r].resp.error = "Current password is incorrect" )
          => /\ app'.token = app.token /\ app'.token # NoToken
             /\ app'.user = app.user
             /\ app'.pathname = "/change-password"
             /\ app'.screen = "ChangePassword"
             /\ app'.pageError = "Current password is incorrect"]_vars

\* C35: when logout() of the client completes, whether the server has
\* answered or the request has failed, the identity is null, no token is
\* stored, loading is false and the Login page is displayed; from then on,
\* while nobody is logged in, a visit of a protected route ends at /login
C35_LoggedOut ==
    [][/\ (app.pc = "logout" /\ app'.pc = "idle")
          => /\ app'.user = NoUser /\ app'.token = NoToken
             /\ ~app'.loading
             /\ app'.pathname = "/login" /\ app'.screen = "Login"
       /\ ( /\ app.mounted /\ app.pc = "idle" /\ app.user = NoUser
            /\ app.token = NoToken
            /\ app'.pc = "idle" /\ app'.requested \in ProtectedPaths )
          => app'.pathname = "/login" /\ app'.screen = "Login"]_vars

\* handleLogout has just navigated to /login after a logout whose request
\* has failed: nobody is logged in and no token is stored
C35_Witness ==
    /\ app.mounted /\ app.navigated = "/login" /\ app.pc = "idle"
    /\ app.console = "Logout error:"
    /\ app.user = NoUser /\ app.token = NoToken /\ ~app.loading
    /\ app.screen = "Login" /\ issued # {}

\* C36: when the client has started with a stored token, the identity
\* lookup is answered in the end and loading becomes false; a lookup that
\* does not answer the user of the token removes the token and leaves the
\* identity null, and then neither the loading state nor a protected page
\* is displayed: a protected route has ended at /login
C36_FailedLookup ==
    /\ [][(app.pc = "initAuth" /\ app'.pc = "idle")
           => LET auth == authenticate(Bearer(app.token), now)
                  doc == findById(users, auth.user.userId)
              IN  \/ /\ auth.next /\ doc # NoDoc
                     /\ app'.user = UserSafe(doc) /\ app'.token = app.token
                  \/ /\ app'.user = NoUser /\ app'.token = NoToken
                     /\ ~app'.loading
                     /\ app'.screen \notin ProtectedPages \cup {"Loading..."}
                     /\ app'.requested \in ProtectedPaths
                        => /\ app'.pathname = "/login"
                           /\ app'.screen = "Login"]_vars
    /\ (app.pc = "initAuth") ~> (app.pc = "idle" /\ ~app.loading)

\* the lookup for the stored token has failed while a protected route was
\* asked for: the token is gone and the Login page is displayed
C36_Witness ==
    /\ app.mounted /\ app.console = "Failed to fetch user:"
    /\ app.requested \in ProtectedPaths
    /\ app.token = NoToken /\ app.user = NoUser /\ ~app.loading
    /\ app.pathname = "/login" /\ app.screen = "Login"

\* C37 as stated: once the server has accepted the password change of the
\* page and the page redirects, the client shows the dashboard, and the
\* identity it holds does not have to change its password any more
C37_DashboardAfterChange ==
    [][( /\ app.pc = "redirect" /\ app'.pc = "idle"
         /\ app'.navigated = "/dashboard" )
       => /\ app'.user # NoUser /\ ~app'.user.mustChangePassword
          /\ app'.pathname = "/dashboard" /\ app'.screen = "Dashboard"]_vars

\* C38 as stated: the validation of the ChangePassword page and
\* validatePassword of the server accept the same passwords
C38_SamePolicy ==
    ( /\ app.screen = "ChangePassword"
      /\ reqs["r2"].op = "validatePassword"
      /\ reqs["r2"].password = app.newPassword )
    => (app.validationError = "" <=> reqs["r2"].resp.errors = <<>>)
====
